---- MODULE Spec2Model ----
(***************************************************************************)
(* Marketing-campaign analytics pipeline: data cleaner, ROI calculator,    *)
(* customer segmentation and the orchestrating main.                       *)
(*                                                                         *)
(* Tables (pandas DataFrames) are sequences of rows; a row is a record     *)
(* whose field idx is the row's index label, which pandas keeps through    *)
(* copy, fillna, drop_duplicates, boolean filtering and clip.              *)
(*                                                                         *)
(* Numbers are float64 values modelled exactly: a value is a pair <<n, d>> *)
(* in lowest terms with d >= 0.  d > 0 is the rational n/d, <<1, 0>> is    *)
(* +inf, <<-1, 0>> is -inf and <<0, 0>> is NaN (pandas' missing number).   *)
(* Rounding error of the binary representation is not modelled.            *)
(*                                                                         *)
(* Text is a sequence of character codes (32 " ", 95 "_", 65.."Z", 97..).  *)
(* A missing text cell (None) is the value None.                           *)
(***************************************************************************)
EXTENDS Integers, Sequences, FiniteSets, TLC

VARIABLES
    config,          \* the configuration loaded at construction (config.yaml)
    clip_df,         \* SpecClip: the table handed to and returned by _handle_outliers
    clip_hist,       \* SpecClip: the table as it was before each pass, oldest first
    customers_df,    \* the raw customer table handed to clean_customer_data
    clean_customers, \* the table clean_customer_data returned
    cust_status,     \* "input", then "ok" or the exception clean_customer_data raised
    campaigns_df,    \* the raw campaign table handed to clean_campaign_data
    camp_filled,     \* the table _handle_missing_values returned inside it
    clean_campaigns, \* the table clean_campaign_data returned
    camp_status,     \* "input", then "ok" or the exception clean_campaign_data raised
    seg_input,       \* the customer table as it was handed to segment_customers
    seg_df,          \* the customer table handed to segment_customers (mutated by it)
    seg_status,      \* "input", then "ok" or the exception segment_customers raised
    roi_input,       \* the table handed to the ROICalculator
    roi_valid,       \* "unchecked", then what validate_data returned or raised
    roi_df,          \* the table calculate_campaign_roi returned
    roi_files,       \* the files calculate_campaign_roi has written
    roi_status,      \* "input", then "ok" or the exception that was raised
    chan_df,         \* the table handed to analyze_channel_performance
    channel_summary, \* the table analyze_channel_performance returned
    chan_status,     \* "input", then "ok"
    report_df,       \* the table handed to generate_roi_report
    roi_report,      \* the report generate_roi_report returned
    report_status,   \* "input", then "ok"
    db_campaigns,    \* the campaigns table of the database
    loaded_df,       \* the table load_campaigns returned
    load_status,     \* "stored", then "ok" or the exception load_campaigns raised
    pc,              \* main: the statement to run next
    args,            \* main: the command-line flags
    calls            \* main: the calls made so far, in order; a call that
                     \* raised is followed by the entry "raises"

clipVars == <<clip_df, clip_hist>>

custVars == <<customers_df, clean_customers, cust_status>>

campVars == <<campaigns_df, camp_filled, clean_campaigns, camp_status>>

segVars == <<seg_input, seg_df, seg_status>>

roiVars == <<roi_input, roi_valid, roi_df, roi_files, roi_status>>

chanVars == <<chan_df, channel_summary, chan_status>>

reportVars == <<report_df, roi_report, report_status>>

loadVars == <<db_campaigns, loaded_df, load_status>>

mainVars == <<pc, args, calls>>

vars == <<config, clipVars, custVars, campVars, segVars, roiVars, chanVars,
          reportVars, loadVars, mainVars>>

\* ------------------------------------------------------------------------
\* float64 arithmetic, exact
\* ------------------------------------------------------------------------
Abs(x) == IF x < 0 THEN -x ELSE x

Sign(x) == IF x < 0 THEN -1 ELSE IF x > 0 THEN 1 ELSE 0

RECURSIVE GCD(_, _)
GCD(a, b) == IF b = 0 THEN a ELSE GCD(b, a % b)

\* n/d in lowest terms; x/0 is +-inf and 0/0 is NaN as in IEEE 754
R(n, d) ==
    IF d = 0 THEN <<Sign(n), 0>>
    ELSE LET g == GCD(Abs(n), Abs(d))
         IN  <<(Sign(d) * n) \div g, Abs(d) \div g>>

I(n) == <<n, 1>>

NaN == <<0, 0>>

PosInf == <<1, 0>>

NegInf == <<-1, 0>>

IsNaN(x) == x = NaN

IsFinite(x) == x[2] # 0

RNeg(a) == <<-a[1], a[2]>>

RAdd(a, b) ==
    IF IsNaN(a) \/ IsNaN(b) THEN NaN
    ELSE IF a[2] = 0 /\ b[2] = 0 THEN (IF a = b THEN a ELSE NaN)
    ELSE IF a[2] = 0 THEN a
    ELSE IF b[2] = 0 THEN b
    ELSE R(a[1] * b[2] + b[1] * a[2], a[2] * b[2])

RSub(a, b) == RAdd(a, RNeg(b))

RMul(a, b) == R(a[1] * b[1], a[2] * b[2])

\* x / 0 is an infinity of the sign of x, 0 / 0 is NaN
RDiv(a, b) ==
    IF b[1] < 0 THEN R((0 - a[1]) * b[2], a[2] * (0 - b[1]))
    ELSE R(a[1] * b[2], a[2] * b[1])

\* comparisons with NaN are False
RLt(a, b) ==
    /\ ~IsNaN(a)
    /\ ~IsNaN(b)
    /\ IF a[2] = 0 /\ b[2] = 0 THEN a[1] < b[1]
       ELSE a[1] * b[2] < b[1] * a[2]

RLe(a, b) == ~IsNaN(a) /\ ~IsNaN(b) /\ (a = b \/ RLt(a, b))

RGe(a, b) == RLe(b, a)

RGt(a, b) == RLt(b, a)

RMin(a, b) == IF RLt(b, a) THEN b ELSE a

RMax(a, b) == IF RLt(a, b) THEN b ELSE a

\* ------------------------------------------------------------------------
\* Series helpers
\* ------------------------------------------------------------------------
\* the column c of a table, as a sequence of values in row order
Column(df, c) == [i \in DOMAIN df |-> df[i][c]]

RECURSIVE DropNaN(_)
DropNaN(s) ==
    IF s = <<>> THEN <<>>
    ELSE IF IsNaN(Head(s)) THEN DropNaN(Tail(s))
    ELSE <<Head(s)>> \o DropNaN(Tail(s))

RECURSIVE InsertSorted(_, _)
InsertSorted(x, s) ==
    IF s = <<>> THEN <<x>>
    ELSE IF RLe(x, Head(s)) THEN <<x>> \o s
    ELSE <<Head(s)>> \o InsertSorted(x, Tail(s))

RECURSIVE SortValues(_)
SortValues(s) ==
    IF s = <<>> THEN <<>> ELSE InsertSorted(Head(s), SortValues(Tail(s)))

\* Series.quantile(qn/qd): NaN skipped, linear interpolation between the two
\* order statistics around position q*(n-1); NaN for an empty series
Quantile(s, qn, qd) ==
    LET v   == SortValues(DropNaN(s))
        n   == Len(v)
        lo  == (qn * (n - 1)) \div qd
        rem == (qn * (n - 1)) % qd
    IN  IF n = 0 THEN NaN
        ELSE IF rem = 0 THEN v[lo + 1]
        ELSE RAdd(v[lo + 1], RMul(R(rem, qd), RSub(v[lo + 2], v[lo + 1])))

\* ------------------------------------------------------------------------
\* DataCleaner._handle_outliers
\* ------------------------------------------------------------------------
Q1(s) == Quantile(s, 1, 4)

Q3(s) == Quantile(s, 3, 4)

IQR(s) == RSub(Q3(s), Q1(s))

lower_bound(s, k) == RSub(Q1(s), RMul(k, IQR(s)))

upper_bound(s, k) == RAdd(Q3(s), RMul(k, IQR(s)))

\* Clip with the upper threshold forgotten
ClipLowerOnly(v, lower, upper) ==
    IF IsNaN(v) \/ IsNaN(lower) THEN v
    ELSE IF RLt(v, lower) THEN lower
    ELSE v

\* Series.clip(lower, upper) on one value: a NaN threshold is no threshold,
\* scalar thresholds given in the wrong order are swapped, NaN stays NaN
Clip(v, lower, upper) ==
    LET lo == IF IsNaN(lower) \/ IsNaN(upper) THEN lower ELSE RMin(lower, upper)
        hi == IF IsNaN(lower) \/ IsNaN(upper) THEN upper ELSE RMax(lower, upper)
    IN  IF IsNaN(v) THEN v
        ELSE IF RLt(v, lo) THEN lo
        ELSE IF RGt(v, hi) THEN hi
        ELSE v

\* dtype in ['int64', 'float64']: the numeric columns of the tables modelled
NumericDtype ==
    {"value", "other", "cost", "impressions", "clicks", "conversions", "revenue",
     "age", "sessions", "avg_session_duration", "pages_per_session", "transactions"}

HasColumn(df, c) == df # <<>> /\ c \in DOMAIN df[1]

\* ClipColumn with a hard-coded multiplier of 3 instead of the configured one
ClipColumnHardK(df, c, k) ==
    LET s  == Column(df, c)
        lo == lower_bound(s, I(3))
        hi == upper_bound(s, I(3))
    IN  [i \in DOMAIN df |-> [df[i] EXCEPT ![c] = Clip(@, lo, hi)]]

\* ClipColumn removing the rows outside the bounds instead of clamping them
ClipColumnDropOutliers(df, c, k) ==
    LET s  == Column(df, c)
        lo == lower_bound(s, k)
        hi == upper_bound(s, k)
        Inside(row) == IsNaN(row[c]) \/ (RLe(lo, row[c]) /\ RLe(row[c], hi))
    IN  SelectSeq(df, Inside)

\* df[col] = df[col].clip(lower=lower_bound, upper=upper_bound)
ClipColumn(df, c, k) ==
    LET s  == Column(df, c)
        lo == lower_bound(s, k)
        hi == upper_bound(s, k)
    IN  [i \in DOMAIN df |-> [df[i] EXCEPT ![c] = Clip(@, lo, hi)]]

\* for col in columns: if col in df.columns and dtype numeric: clip it
RECURSIVE handle_outliers(_, _, _)
handle_outliers(df, columns, k) ==
    IF columns = <<>> THEN df
    ELSE LET c == Head(columns)
             clipped == IF HasColumn(df, c) /\ c \in NumericDtype
                        THEN ClipColumn(df, c, k)
                        ELSE df
         IN  handle_outliers(clipped, Tail(columns), k)

\* ------------------------------------------------------------------------
\* Text
\* ------------------------------------------------------------------------
\* a missing text cell (None / NaN in an object column)
None == <<-1>>

\* str.upper on one character code
UpperChar(ch) == IF ch >= 97 /\ ch <= 122 THEN ch - 32 ELSE ch

\* Series.str.upper: a missing cell stays missing
StrUpper(t) == IF t = None THEN None ELSE [i \in DOMAIN t |-> UpperChar(t[i])]

\* the order of Python str comparison: by character code, a prefix first
RECURSIVE TextLt(_, _)
TextLt(a, b) ==
    IF b = <<>> THEN FALSE
    ELSE IF a = <<>> THEN TRUE
    ELSE IF Head(a) # Head(b) THEN Head(a) < Head(b)
    ELSE TextLt(Tail(a), Tail(b))

\* ------------------------------------------------------------------------
\* DataCleaner._handle_missing_values
\* ------------------------------------------------------------------------
ColumnsOf(df) == IF df = <<>> THEN {} ELSE DOMAIN df[1] \ {"idx"}

\* select_dtypes(include=['int64', 'float64']).columns
NumericColsOf(df) == ColumnsOf(df) \cap NumericDtype

\* select_dtypes(include=['object']).columns
CategoricalColsOf(df) == ColumnsOf(df) \ NumericDtype

\* DataFrame.median() of one column: NaN skipped, NaN when nothing is left
Median(s) == Quantile(s, 1, 2)

CountOf(s, v) == Cardinality({i \in DOMAIN s : s[i] = v})

\* the values of DataFrame.mode() for one column: the most frequent present
\* values (missing cells dropped)
Modes(s) ==
    LET present == {s[i] : i \in DOMAIN s} \ {None}
    IN  {v \in present : \A w \in present : CountOf(s, w) <= CountOf(s, v)}

\* mode().iloc[0] with a column's modes listed in descending order
FirstMode_LastInOrder(s) ==
    IF Modes(s) = {} THEN None
    ELSE CHOOSE v \in Modes(s) : \A w \in Modes(s) : w = v \/ TextLt(w, v)

\* mode().iloc[0] for one column: DataFrame.mode() lists a column's modes in
\* sorted order, so row 0 holds the smallest; a column with no present value
\* holds a missing cell there
FirstMode(s) ==
    IF Modes(s) = {} THEN None
    ELSE CHOOSE v \in Modes(s) : \A w \in Modes(s) : w = v \/ TextLt(v, w)

\* mode() has no row 0 when no categorical column has a present value (also
\* when the table has no row or no categorical column): .iloc[0] raises
ModeRowMissing(df) ==
    \A c \in CategoricalColsOf(df) : Modes(Column(df, c)) = {}

FillRow(df, row) ==
    [c \in DOMAIN row |->
        IF c = "idx" THEN row[c]
        ELSE IF c \in NumericDtype
             THEN (IF IsNaN(row[c]) THEN Median(Column(df, c)) ELSE row[c])
             ELSE (IF row[c] = None THEN FirstMode(Column(df, c)) ELSE row[c])]

\* the table returned; meaningful when ModeRowMissing(df) is false
handle_missing_values(df) == [i \in DOMAIN df |-> FillRow(df, df[i])]

\* ------------------------------------------------------------------------
\* DataFrame.drop_duplicates and boolean filtering
\* ------------------------------------------------------------------------
\* equal in every column; the index label is not a column
SameRow(a, b) == \A c \in DOMAIN a \ {"idx"} : a[c] = b[c]

RECURSIVE KeepRows(_, _, _)
KeepRows(df, keep, i) ==
    IF i > Len(df) THEN <<>>
    ELSE (IF i \in keep THEN <<df[i]>> ELSE <<>>) \o KeepRows(df, keep, i + 1)

\* keep='first': a row goes when an earlier row equals it
drop_duplicates(df) ==
    KeepRows(df, {i \in DOMAIN df : \A j \in 1..(i - 1) : ~SameRow(df[j], df[i])}, 1)

\* df[df[c] >= threshold]: a missing value satisfies no comparison
FilterGe(df, c, threshold) ==
    KeepRows(df, {i \in DOMAIN df : RGe(df[i][c], threshold)}, 1)

\* ------------------------------------------------------------------------
\* DataCleaner.clean_customer_data
\* ------------------------------------------------------------------------
CustomerNumericCols ==
    <<"age", "sessions", "avg_session_duration", "pages_per_session",
      "transactions", "revenue">>

\* df['gender'] = df['gender'].str.upper(), the same for country
StandardizeCategoricals(df) ==
    [i \in DOMAIN df |->
        [df[i] EXCEPT !.gender = StrUpper(@), !.country = StrUpper(@)]]

\* clean_customer_data with the threshold filter moved after the clipping
clean_customer_data_FilterLast(df, cfg) ==
    LET filled   == handle_missing_values(df)
        deduped  == drop_duplicates(filled)
        clipped  == handle_outliers(deduped, CustomerNumericCols,
                                    cfg.outlier_threshold)
        valid    == FilterGe(FilterGe(clipped, "sessions", cfg.min_sessions),
                             "revenue", cfg.min_revenue)
    IN  StandardizeCategoricals(valid)

\* clean_customer_data with the revenue threshold forgotten
clean_customer_data_NoRevenueFilter(df, cfg) ==
    LET filled   == handle_missing_values(df)
        deduped  == drop_duplicates(filled)
        valid    == FilterGe(deduped, "sessions", cfg.min_sessions)
        clipped  == handle_outliers(valid, CustomerNumericCols,
                                    cfg.outlier_threshold)
    IN  StandardizeCategoricals(clipped)

\* the table returned; meaningful when ModeRowMissing(df) is false
clean_customer_data(df, cfg) ==
    LET filled   == handle_missing_values(df)
        deduped  == drop_duplicates(filled)
        valid    == FilterGe(FilterGe(deduped, "sessions", cfg.min_sessions),
                             "revenue", cfg.min_revenue)
        clipped  == handle_outliers(valid, CustomerNumericCols,
                                    cfg.outlier_threshold)
    IN  StandardizeCategoricals(clipped)

\* ------------------------------------------------------------------------
\* DataCleaner._calculate_campaign_metrics
\* ------------------------------------------------------------------------
\* scale * a / (b + eps) with eps = 1e-10, kept as the pair of its numerator
\* scale * a and the denominator b that eps is added to: eps is far below
\* the resolution of the value pairs, and b + eps is never 0 for a b of the
\* model.  A missing operand gives a missing result.
GuardedRatio(a, b, scale) ==
    IF IsNaN(a) \/ IsNaN(b) THEN [num |-> NaN, den |-> NaN]
    ELSE [num |-> RMul(a, I(scale)), den |-> b]

\* the value scale * a / (b + eps) is finite: both operands are, and b + eps
\* is not 0, which holds for every b outside the open interval (-1, 0)
GuardedFinite(g) ==
    /\ IsFinite(g.num)
    /\ IsFinite(g.den)
    /\ RGe(g.den, I(0)) \/ RLe(g.den, I(-1))

\* the metrics with the plain quotient a / b put in place of a / (b + eps)
calculate_campaign_metrics_Unguarded(df) ==
    [i \in DOMAIN df |->
        LET r == df[i]
            plain(a, b, scale) ==
                [num |-> RMul(RDiv(a, b), I(scale)), den |-> I(1)]
        IN  [c \in DOMAIN r \cup {"ctr", "conversion_rate", "cost_per_click",
                                  "cost_per_conversion", "roi", "roas"} |->
               CASE c = "ctr" -> plain(r.clicks, r.impressions, 100)
                 [] c = "conversion_rate" -> plain(r.conversions, r.clicks, 100)
                 [] c = "cost_per_click" -> plain(r.cost, r.clicks, 1)
                 [] c = "cost_per_conversion" -> plain(r.cost, r.conversions, 1)
                 [] c = "roi" -> plain(RSub(r.revenue, r.cost), r.cost, 100)
                 [] c = "roas" -> plain(r.revenue, r.cost, 1)
                 [] OTHER -> r[c]]]

calculate_campaign_metrics(df) ==
    [i \in DOMAIN df |->
        LET r == df[i]
        IN  [c \in DOMAIN r \cup {"ctr", "conversion_rate", "cost_per_click",
                                  "cost_per_conversion", "roi", "roas"} |->
               CASE c = "ctr" -> GuardedRatio(r.clicks, r.impressions, 100)
                 [] c = "conversion_rate" ->
                        GuardedRatio(r.conversions, r.clicks, 100)
                 [] c = "cost_per_click" -> GuardedRatio(r.cost, r.clicks, 1)
                 [] c = "cost_per_conversion" ->
                        GuardedRatio(r.cost, r.conversions, 1)
                 [] c = "roi" ->
                        GuardedRatio(RSub(r.revenue, r.cost), r.cost, 100)
                 [] c = "roas" -> GuardedRatio(r.revenue, r.cost, 1)
                 [] OTHER -> r[c]]]

\* ------------------------------------------------------------------------
\* DataCleaner._standardize_campaign_name
\* ------------------------------------------------------------------------
UnknownCampaign ==
    <<85, 110, 107, 110, 111, 119, 110, 32, 67, 97, 109, 112, 97, 105, 103, 110>>

IsLetter(ch) == (ch >= 65 /\ ch <= 90) \/ (ch >= 97 /\ ch <= 122)

LowerChar(ch) == IF ch >= 65 /\ ch <= 90 THEN ch + 32 ELSE ch

RECURSIVE SkipSpaces(_)
SkipSpaces(t) ==
    IF t # <<>> /\ Head(t) = 32 THEN SkipSpaces(Tail(t)) ELSE t

\* ' '.join(name.split()): leading and trailing blanks go, every inner run of
\* blanks becomes one blank
RECURSIVE JoinSplit(_)
JoinSplit(t) ==
    LET u == SkipSpaces(t)
    IN  IF u = <<>> THEN <<>>
        ELSE IF Head(t) = 32 THEN <<32>> \o JoinSplit(u)
        ELSE <<Head(t)>> \o JoinSplit(Tail(t))

StripLeft(t) == IF t # <<>> /\ Head(t) = 32 THEN Tail(t) ELSE t

\* str.title: a letter that follows a letter is lower-cased, any other
\* letter is upper-cased, other characters stay
Title(t) ==
    [i \in DOMAIN t |->
        IF ~IsLetter(t[i]) THEN t[i]
        ELSE IF i > 1 /\ IsLetter(t[i - 1]) THEN LowerChar(t[i])
        ELSE UpperChar(t[i])]

standardize_campaign_name(name) ==
    IF name = None THEN UnknownCampaign
    ELSE Title(StripLeft(JoinSplit(name)))

\* ------------------------------------------------------------------------
\* DataCleaner.clean_campaign_data
\* ------------------------------------------------------------------------
CampaignNumericCols == <<"cost", "impressions", "clicks", "conversions", "revenue">>

StandardizeNames(df) ==
    [i \in DOMAIN df |->
        [df[i] EXCEPT !.campaign_name = standardize_campaign_name(@)]]

\* clean_campaign_data with the duplicates removed before the imputation
clean_campaign_data_DedupFirst(df, cfg) ==
    LET deduped == drop_duplicates(df)
        filled  == handle_missing_values(deduped)
        clipped == handle_outliers(filled, CampaignNumericCols,
                                   cfg.outlier_threshold)
    IN  StandardizeNames(calculate_campaign_metrics(clipped))

\* clean_campaign_data with the derived metrics computed before the clipping
clean_campaign_data_MetricsBeforeClip(df, cfg) ==
    LET filled  == handle_missing_values(df)
        deduped == drop_duplicates(filled)
        derived == calculate_campaign_metrics(deduped)
    IN  StandardizeNames(handle_outliers(derived, CampaignNumericCols,
                                         cfg.outlier_threshold))

\* the table returned; meaningful when ModeRowMissing(df) is false
clean_campaign_data(df, cfg) ==
    LET filled  == handle_missing_values(df)
        deduped == drop_duplicates(filled)
        clipped == handle_outliers(deduped, CampaignNumericCols,
                                   cfg.outlier_threshold)
    IN  StandardizeNames(calculate_campaign_metrics(clipped))

\* ------------------------------------------------------------------------
\* CustomerSegmentation
\* ------------------------------------------------------------------------
\* config['model']['clustering']['features']; config.yaml is not part of src/
Features == {"sessions", "transactions", "revenue"}

FeatureVector(row) == [c \in Features |-> row[c]]

DistinctPoints(df) == {FeatureVector(df[i]) : i \in DOMAIN df}

\* KMeans(n_clusters, n_init=10).fit_predict(X), for n_samples >= n_clusters:
\* every label vector the library can return.  Labels are 0..n_clusters-1,
\* equal points share a label, and as many labels are used as there are
\* clusters to find: n_clusters, or the number of distinct points when that
\* is smaller.  Which label a cluster gets depends on the seeding.
KMeansLabelings(df, n_clusters) ==
    LET used(f) == {f[i] : i \in DOMAIN df}
        want    == IF Cardinality(DistinctPoints(df)) < n_clusters
                   THEN Cardinality(DistinctPoints(df))
                   ELSE n_clusters
    IN  {f \in [DOMAIN df -> 0..(n_clusters - 1)] :
            /\ Cardinality(used(f)) = want
            /\ \A i, j \in DOMAIN df :
                  FeatureVector(df[i]) = FeatureVector(df[j]) => f[i] = f[j]}

RECURSIVE SumValues(_)
SumValues(s) == IF s = <<>> THEN I(0) ELSE RAdd(Head(s), SumValues(Tail(s)))

\* Series.sum(): NaN skipped
Sum(s) == SumValues(DropNaN(s))

\* Series.mean(): NaN skipped, NaN when nothing is left
Mean(s) == RDiv(Sum(s), I(Len(DropNaN(s))))

RowsWhere(df, c, v) == KeepRows(df, {i \in DOMAIN df : df[i][c] = v}, 1)

ClusterIds(df) == {df[i].cluster : i \in DOMAIN df}

\* df.groupby('cluster').agg({'revenue': 'mean', ...})['revenue']
ClusterMeanRevenue(df, cl) == Mean(Column(RowsWhere(df, "cluster", cl), "revenue"))

\* the position of cluster cl when the clusters are sorted by mean revenue
\* ascending
RankOf_Ascending(df, cl) ==
    Cardinality({o \in ClusterIds(df) :
        \/ RLt(ClusterMeanRevenue(df, o), ClusterMeanRevenue(df, cl))
        \/ ClusterMeanRevenue(df, o) = ClusterMeanRevenue(df, cl) /\ o < cl})

\* position (from 0) of cluster cl in cluster_metrics.sort_values('revenue',
\* ascending=False): clusters of equal mean keep their groupby order, which
\* is by cluster id
RankOf(df, cl) ==
    Cardinality({o \in ClusterIds(df) :
        \/ RGt(ClusterMeanRevenue(df, o), ClusterMeanRevenue(df, cl))
        \/ ClusterMeanRevenue(df, o) = ClusterMeanRevenue(df, cl) /\ o < cl})

SegmentNames == <<"High-Value Buyers", "Deal Seekers", "Casual Visitors">>

\* a cluster id that the labels dict has no key for maps to NaN
NoSegment == "NaN"

\* cluster_metrics.index[2] is out of range with fewer than 3 clusters
LabelsIndexError(df) == Cardinality(ClusterIds(df)) < 3

\* the labels with the second name given to every cluster below the first
get_segment_labels_TwoNames(df, cl) ==
    IF RankOf(df, cl) = 0 THEN SegmentNames[1] ELSE SegmentNames[2]

\* df['cluster'].map(labels) for one cluster id
get_segment_labels(df, cl) ==
    IF RankOf(df, cl) < 3 THEN SegmentNames[RankOf(df, cl) + 1] ELSE NoSegment

WithClusters(df, f) ==
    [i \in DOMAIN df |->
        [c \in DOMAIN df[i] \cup {"cluster"} |->
            IF c = "cluster" THEN f[i] ELSE df[i][c]]]

WithSegments(df) ==
    [i \in DOMAIN df |->
        [c \in DOMAIN df[i] \cup {"segment"} |->
            IF c = "segment" THEN get_segment_labels(df, df[i].cluster)
            ELSE df[i][c]]]

\* segment_customers: every way the call can end, with the state it leaves
\* the caller's table in (df['cluster'] and df['segment'] are assigned on
\* the argument itself).  KMeans.fit rejects n_samples < n_clusters with a
\* ValueError; otherwise df['cluster'] is assigned, then
\* _get_segment_labels either raises the IndexError or df['segment'] is
\* assigned and df returned.
segment_customers(df, n_clusters) ==
    IF Len(df) < n_clusters
    THEN {[status |-> "ValueError", df |-> df]}
    ELSE {LET clustered == WithClusters(df, f)
          IN  IF LabelsIndexError(clustered)
              THEN [status |-> "IndexError", df |-> clustered]
              ELSE [status |-> "ok", df |-> WithSegments(clustered)] :
          f \in KMeansLabelings(df, n_clusters)}

\* ------------------------------------------------------------------------
\* ROICalculator
\* ------------------------------------------------------------------------
\* the metric columns with roi taken from the revenue, not from the profit
calculate_campaign_roi_RoiOfRevenue(df) ==
    [i \in DOMAIN df |->
        LET r == df[i]
        IN  [c \in DOMAIN r \cup {"roi", "profit", "roas", "cpc", "cpa",
                                  "conversion_value"} |->
               CASE c = "roi" -> RMul(RDiv(r.revenue, r.cost), I(100))
                 [] c = "profit" -> RSub(r.revenue, r.cost)
                 [] c = "roas" -> RDiv(r.revenue, r.cost)
                 [] c = "cpc" -> RDiv(r.cost, r.clicks)
                 [] c = "cpa" -> RDiv(r.cost, r.conversions)
                 [] c = "conversion_value" -> RDiv(r.revenue, r.conversions)
                 [] OTHER -> r[c]]]

\* the metric columns with a division by 0 replaced by 0
calculate_campaign_roi_ZeroForUndefined(df) ==
    [i \in DOMAIN df |->
        LET r == df[i]
            safe(a, b) == IF b = I(0) THEN I(0) ELSE RDiv(a, b)
        IN  [c \in DOMAIN r \cup {"roi", "profit", "roas", "cpc", "cpa",
                                  "conversion_value"} |->
               CASE c = "roi" ->
                        RMul(RDiv(RSub(r.revenue, r.cost), r.cost), I(100))
                 [] c = "profit" -> RSub(r.revenue, r.cost)
                 [] c = "roas" -> RDiv(r.revenue, r.cost)
                 [] c = "cpc" -> safe(r.cost, r.clicks)
                 [] c = "cpa" -> safe(r.cost, r.conversions)
                 [] c = "conversion_value" -> safe(r.revenue, r.conversions)
                 [] OTHER -> r[c]]]

\* calculate_campaign_roi computing the rates of the table anew, as
\* fractions instead of percentages
calculate_campaign_roi_RecomputesRates(df) ==
    [i \in DOMAIN df |->
        LET r == df[i]
        IN  [c \in DOMAIN r \cup {"roi", "profit", "roas", "cpc", "cpa",
                                  "conversion_value"} |->
               CASE c = "roi" ->
                        RMul(RDiv(RSub(r.revenue, r.cost), r.cost), I(100))
                 [] c = "profit" -> RSub(r.revenue, r.cost)
                 [] c = "roas" -> RDiv(r.revenue, r.cost)
                 [] c = "cpc" -> RDiv(r.cost, r.clicks)
                 [] c = "cpa" -> RDiv(r.cost, r.conversions)
                 [] c = "conversion_value" -> RDiv(r.revenue, r.conversions)
                 [] c = "ctr" -> GuardedRatio(r.clicks, r.impressions, 1)
                 [] c = "conversion_rate" ->
                        GuardedRatio(r.conversions, r.clicks, 1)
                 [] OTHER -> r[c]]]

\* the metric columns of calculate_campaign_roi; a division by 0 raises
\* nothing on a pandas column
calculate_campaign_roi(df) ==
    [i \in DOMAIN df |->
        LET r == df[i]
        IN  [c \in DOMAIN r \cup {"roi", "profit", "roas", "cpc", "cpa",
                                  "conversion_value"} |->
               CASE c = "roi" ->
                        RMul(RDiv(RSub(r.revenue, r.cost), r.cost), I(100))
                 [] c = "profit" -> RSub(r.revenue, r.cost)
                 [] c = "roas" -> RDiv(r.revenue, r.cost)
                 [] c = "cpc" -> RDiv(r.cost, r.clicks)
                 [] c = "cpa" -> RDiv(r.cost, r.conversions)
                 [] c = "conversion_value" -> RDiv(r.revenue, r.conversions)
                 [] OTHER -> r[c]]]

RECURSIVE Pow10(_)
Pow10(decimals) == IF decimals = 0 THEN 1 ELSE 10 * Pow10(decimals - 1)

\* Series.round(decimals): to the nearest multiple of 10^-decimals, a tie
\* to the even one; an infinity or NaN stays
Round(x, decimals) ==
    IF ~IsFinite(x) THEN x
    ELSE LET n == x[1] * Pow10(decimals)
             q == n \div x[2]
             r == n - q * x[2]
             m == IF 2 * r < x[2] THEN q
                  ELSE IF 2 * r > x[2] THEN q + 1
                  ELSE IF q % 2 = 0 THEN q ELSE q + 1
         IN  R(m, Pow10(decimals))

RAbs(x) == IF RLt(x, I(0)) THEN RNeg(x) ELSE x

RECURSIVE SortedTexts(_)
SortedTexts(S) ==
    IF S = {} THEN <<>>
    ELSE LET m == CHOOSE x \in S : \A y \in S \ {x} : TextLt(x, y)
         IN  <<m>> \o SortedTexts(S \ {m})

\* the group keys of df.groupby('channel'): sorted, a missing channel is in
\* no group
ChannelKeys(df) == SortedTexts({df[i].channel : i \in DOMAIN df} \ {None})

\* one row of the aggregation with the cost averaged instead of summed
ChannelRow_MeanCost(df, ch) ==
    LET g       == RowsWhere(df, "channel", ch)
        sum(c)  == Round(Sum(Column(g, c)), 2)
        mean(c) == Round(Mean(Column(g, c)), 2)
    IN  [channel |-> ch, cost |-> mean("cost"), revenue |-> sum("revenue"),
         conversions |-> sum("conversions"), profit |-> sum("profit"),
         roi |-> mean("roi"), roas |-> mean("roas"),
         impressions |-> sum("impressions"), clicks |-> sum("clicks")]

\* one row of df.groupby('channel').agg({...}).round(2)
ChannelRow(df, ch) ==
    LET g       == RowsWhere(df, "channel", ch)
        sum(c)  == Round(Sum(Column(g, c)), 2)
        mean(c) == Round(Mean(Column(g, c)), 2)
    IN  [channel |-> ch, cost |-> sum("cost"), revenue |-> sum("revenue"),
         conversions |-> sum("conversions"), profit |-> sum("profit"),
         roi |-> mean("roi"), roas |-> mean("roas"),
         impressions |-> sum("impressions"), clicks |-> sum("clicks")]

channel_metrics(df) ==
    [k \in DOMAIN ChannelKeys(df) |-> ChannelRow(df, ChannelKeys(df)[k])]

\* the contribution rounded to a whole percent
profit_contribution_Whole(profit, total_profit) ==
    Round(RMul(RDiv(profit, total_profit), I(100)), 0)

\* (channel_metrics['profit'] / total_profit * 100).round(1)
profit_contribution(profit, total_profit) ==
    Round(RMul(RDiv(profit, total_profit), I(100)), 1)

\* the summary with ctr and conversion_rate averaged over the rows of the
\* channel
analyze_channel_performance_MeanOfRows(df) ==
    LET m            == channel_metrics(df)
        total_profit == Sum(Column(m, "profit"))
        rate(ch, a, b) ==
            LET g == RowsWhere(df, "channel", ch)
            IN  Round(Mean([i \in DOMAIN g |->
                               RMul(RDiv(g[i][a], g[i][b]), I(100))]), 2)
    IN  [k \in DOMAIN m |->
            [c \in DOMAIN m[k] \cup {"profit_contribution", "ctr",
                                     "conversion_rate"} |->
                CASE c = "profit_contribution" ->
                         profit_contribution(m[k].profit, total_profit)
                  [] c = "ctr" -> rate(m[k].channel, "clicks", "impressions")
                  [] c = "conversion_rate" ->
                         rate(m[k].channel, "conversions", "clicks")
                  [] OTHER -> m[k][c]]]

analyze_channel_performance(df) ==
    LET m            == channel_metrics(df)
        total_profit == Sum(Column(m, "profit"))
    IN  [k \in DOMAIN m |->
            [c \in DOMAIN m[k] \cup {"profit_contribution", "ctr",
                                     "conversion_rate"} |->
                CASE c = "profit_contribution" ->
                         profit_contribution(m[k].profit, total_profit)
                  [] c = "ctr" ->
                         Round(RMul(RDiv(m[k].clicks, m[k].impressions),
                                    I(100)), 2)
                  [] c = "conversion_rate" ->
                         Round(RMul(RDiv(m[k].conversions, m[k].clicks),
                                    I(100)), 2)
                  [] OTHER -> m[k][c]]]

\* a sequence without its i-th element
RemoveAt(s, i) == SubSeq(s, 1, i - 1) \o SubSeq(s, i + 1, Len(s))

\* the first n elements
Take(s, n) == SubSeq(s, 1, IF n < Len(s) THEN n ELSE Len(s))

\* roi a comes before roi b: larger with nlargest, smaller with nsmallest
Before(a, b, largest) == IF largest THEN RGt(a, b) ELSE RLt(a, b)

\* among the rows no other row comes before, the last one
FirstBest_KeepLast(df, largest) ==
    LET best == {i \in DOMAIN df :
                    \A j \in DOMAIN df : ~Before(df[j].roi, df[i].roi, largest)}
    IN  CHOOSE i \in best : \A j \in best : j <= i

\* keep='first': among the rows no other row comes before, the first one
FirstBest(df, largest) ==
    LET best == {i \in DOMAIN df :
                    \A j \in DOMAIN df : ~Before(df[j].roi, df[i].roi, largest)}
    IN  CHOOSE i \in best : \A j \in best : i <= j

RECURSIVE SelectN(_, _, _)
SelectN(df, n, largest) ==
    IF n = 0 \/ df = <<>> THEN <<>>
    ELSE <<df[FirstBest(df, largest)]>>
         \o SelectN(RemoveAt(df, FirstBest(df, largest)), n - 1, largest)

\* df.nlargest(n, 'roi') and df.nsmallest(n, 'roi'): rows of a missing roi
\* come after all others, in their order
SelectByRoi(df, n, largest) ==
    LET present == KeepRows(df, {i \in DOMAIN df : ~IsNaN(df[i].roi)}, 1)
        missing == KeepRows(df, {i \in DOMAIN df : IsNaN(df[i].roi)}, 1)
    IN  Take(SelectN(present, n, largest) \o missing, n)

ReportColumns == {"campaign_name", "channel", "cost", "revenue", "roi"}

\* df[[...]].to_dict('records'): the index is not part of a record
ToRecords(df) ==
    [k \in DOMAIN df |-> [c \in ReportColumns |-> df[k][c]]]

generate_roi_report(df) ==
    [overall_metrics |->
        [total_cost |-> Sum(Column(df, "cost")),
         total_revenue |-> Sum(Column(df, "revenue")),
         total_profit |-> Sum(Column(df, "profit")),
         overall_roi |-> Mean(Column(df, "roi")),
         overall_roas |-> Mean(Column(df, "roas"))],
     channel_performance |-> analyze_channel_performance(df),
     top_campaigns |-> ToRecords(SelectByRoi(df, 5, TRUE)),
     bottom_campaigns |-> ToRecords(SelectByRoi(df, 5, FALSE))]

RequiredColumns ==
    {"campaign_name", "channel", "cost", "revenue", "impressions", "clicks",
     "conversions"}

\* validate_data: "True", or the message of the ValueError it raises; a
\* comparison with a missing value is False, so a missing cost or revenue
\* is not found by the two checks
validate_data(df) ==
    IF df = <<>> THEN "Input DataFrame is empty"
    ELSE IF ~(RequiredColumns \subseteq DOMAIN df[1])
         THEN "Missing required columns"
    ELSE IF \E i \in DOMAIN df : RLe(df[i].cost, I(0))
         THEN "Found campaigns with zero or negative cost"
    ELSE IF \E i \in DOMAIN df : RLt(df[i].revenue, I(0))
         THEN "Found campaigns with negative revenue"
    ELSE "True"

\* calculate_campaign_roi creates the directory, then writes the two files
\* in this order; "none", or the first of these steps that raises
IOFailures ==
    {"none", "makedirs", "channel_performance_summary.csv", "roi_analysis.csv"}

FilesWritten(failure) ==
    CASE failure = "none" ->
             {"channel_performance_summary.csv", "roi_analysis.csv"}
      [] failure = "roi_analysis.csv" -> {"channel_performance_summary.csv"}
      [] OTHER -> {}

\* ------------------------------------------------------------------------
\* DataLoader.load_campaigns
\* ------------------------------------------------------------------------
\* A stored or loaded table is a record: columns, the column names in
\* order, and rows, each a function from the column names to values.

\* the SELECT list of the query, in its order
SelectedColumns ==
    <<"campaign_name", "channel", "cost", "impressions", "clicks",
      "conversions", "revenue", "date">>

Range(s) == {s[i] : i \in DOMAIN s}

\* a NULL of the database
Null == <<-1>>

\* the missing timestamp
NaT == [date |-> Null, time |-> Null]

\* pd.to_datetime on one value of the DATE column: a date becomes the
\* timestamp of its midnight, NULL becomes NaT
to_datetime(d) ==
    IF d = Null THEN NaT ELSE [date |-> d, time |-> <<0, 0, 0>>]

\* ORDER BY date: dates <<year, month, day>> ascending, NULL first
DateLe(a, b) ==
    \/ a = Null
    \/ /\ b # Null
       /\ \/ a[1] < b[1]
          \/ a[1] = b[1] /\ a[2] < b[2]
          \/ a[1] = b[1] /\ a[2] = b[2] /\ a[3] <= b[3]

\* the orders in which the database may return the rows: any order that is
\* ascending in date (the order of rows of one date is not determined)
RowOrders(rows) ==
    {perm \in [DOMAIN rows -> DOMAIN rows] :
        /\ \A i, j \in DOMAIN rows : i # j => perm[i] # perm[j]
        /\ \A i, j \in DOMAIN rows :
              i < j => DateLe(rows[perm[i]].date, rows[perm[j]].date)}

\* one row of the result: the selected columns, date converted
LoadedRow(row) ==
    [c \in Range(SelectedColumns) |->
        IF c = "date" THEN to_datetime(row[c]) ELSE row[c]]

\* load_campaigns: every way the call can end; the query fails when the
\* stored table lacks a selected column
load_campaigns(stored) ==
    IF ~(Range(SelectedColumns) \subseteq Range(stored.columns))
    THEN {[status |-> "SQLAlchemyError", df |-> <<>>]}
    ELSE {[status |-> "ok",
           df |-> [columns |-> SelectedColumns,
                   rows |-> [k \in DOMAIN stored.rows |->
                                LoadedRow(stored.rows[perm[k]])]]] :
             perm \in RowOrders(stored.rows)}

\* ------------------------------------------------------------------------
\* Bounds of the model
\* ------------------------------------------------------------------------
MaxLen == 5                \* rows of the table handed to _handle_outliers

MaxCustomers == 3          \* rows of the raw customer table

MaxCampaigns == 3          \* rows of the raw campaign table

MaxSegmented == 4          \* rows of the table handed to segment_customers

MaxRoiRows == 2            \* rows of the table handed to the ROICalculator

MaxChannelRows == 6        \* rows of the table handed to analyze_channel_performance

MaxReportRows == 6         \* rows of the table handed to generate_roi_report

MaxLoadedCampaigns == 2    \* campaign rows in the database main loads from

MaxStoredRows == 3         \* rows of the stored campaigns table

MaxLoadedCustomers == 3    \* customer rows in the database main loads from

\* config['metrics']['outlier_threshold'], an IQR multiplier k >= 0;
\* config.yaml is not part of src/
Thresholds == {I(0), R(1, 2), R(3, 2)}

SeqsUpTo(S, n) == UNION {[1..m -> S] : m \in 0..n}

\* ------------------------------------------------------------------------
\* SpecClip: _handle_outliers called on a table, as tests/test_data_cleaner
\* does, and called again on its own result
\* ------------------------------------------------------------------------
ClipCells == {NaN, I(0), I(1), I(4)}

\* value is listed and numeric, other is numeric and not listed, tag is
\* listed and not numeric; the column "absent" is listed and not in the table
ClipTable(vals) ==
    [i \in DOMAIN vals |->
        [idx |-> i, value |-> vals[i], other |-> I(100 * i), tag |-> <<97>>]]

ClipColumns == <<"value", "tag", "absent">>

IdleClip == clip_df = <<>> /\ clip_hist = <<>>

IdleCust == customers_df = <<>> /\ clean_customers = <<>> /\ cust_status = "idle"

IdleCamp ==
    /\ campaigns_df = <<>>
    /\ camp_filled = <<>>
    /\ clean_campaigns = <<>>
    /\ camp_status = "idle"

IdleSeg == seg_input = <<>> /\ seg_df = <<>> /\ seg_status = "idle"

IdleRoi ==
    /\ roi_input = <<>>
    /\ roi_valid = "idle"
    /\ roi_df = <<>>
    /\ roi_files = {}
    /\ roi_status = "idle"

IdleChan == chan_df = <<>> /\ channel_summary = <<>> /\ chan_status = "idle"

IdleReport == report_df = <<>> /\ roi_report = <<>> /\ report_status = "idle"

IdleMain == pc = "idle" /\ args = <<>> /\ calls = <<>>

IdleLoad == db_campaigns = <<>> /\ loaded_df = <<>> /\ load_status = "idle"

InitClip ==
    /\ config \in [outlier_threshold : Thresholds]
    /\ clip_df \in {ClipTable(vals) : vals \in SeqsUpTo(ClipCells, MaxLen)}
    /\ clip_hist = <<>>
    /\ IdleCust
    /\ IdleCamp
    /\ IdleSeg
    /\ IdleRoi
    /\ IdleChan
    /\ IdleMain
    /\ IdleReport
    /\ IdleLoad

HandleOutliers ==
    /\ Len(clip_hist) < 2
    /\ clip_df' = handle_outliers(clip_df, ClipColumns, config.outlier_threshold)
    /\ clip_hist' = Append(clip_hist, clip_df)
    /\ UNCHANGED <<config, loadVars, reportVars, custVars, campVars, segVars, roiVars, chanVars, mainVars>>

NextClip == HandleOutliers

SpecClip == InitClip /\ [][NextClip]_vars

\* the bounds the pass from table before computed for column value
BoundsOk(before, v) ==
    LET s == Column(before, "value")
        k == config.outlier_threshold
    IN  IsNaN(v) \/ (RLe(lower_bound(s, k), v) /\ RLe(v, upper_bound(s, k)))

\* the table after pass number p (1-based)
AfterPass(p) == IF p = Len(clip_hist) THEN clip_df ELSE clip_hist[p + 1]

C3_Idempotent ==
    \A p \in 2..Len(clip_hist) : AfterPass(p) = clip_hist[p]

QuartilesKept(a, b) ==
    /\ Q1(Column(a, "value")) = Q1(Column(b, "value"))
    /\ Q3(Column(a, "value")) = Q3(Column(b, "value"))

\* C3 amended: a second pass changes no value when the first pass left both
\* quartiles as they were, and in every case the values after the second
\* pass still lie within the bounds the first pass computed.
C3_Amended ==
    \A p \in 2..Len(clip_hist) :
        /\ QuartilesKept(clip_hist[p - 1], clip_hist[p])
               => AfterPass(p) = clip_hist[p]
        /\ \A i \in DOMAIN AfterPass(p) :
               BoundsOk(clip_hist[p - 1], AfterPass(p)[i].value)

\* two passes done, the first clamped a value and kept the quartiles
C3_Witness ==
    /\ Len(clip_hist) >= 2
    /\ clip_hist[2] # clip_hist[1]
    /\ QuartilesKept(clip_hist[1], clip_hist[2])
    /\ clip_df = clip_hist[2]

\* what the claim says a pass makes of the value v, given the bounds the
\* pass computed on the column
Clamped(v, lower, upper) ==
    IF IsNaN(v) THEN v
    ELSE IF RLt(v, lower) THEN lower
    ELSE IF RGt(v, upper) THEN upper
    ELSE v

\* C24: _handle_outliers clamps and never removes: the rows and their order
\* are unchanged, a value inside [lower, upper] is left as is, a value below
\* lower becomes lower and a value above upper becomes upper, and columns
\* that are not listed, not numeric or absent are left untouched.
C24_ClampsAndNeverRemoves ==
    \A p \in 1..Len(clip_hist) :
        LET before == clip_hist[p]
            after  == AfterPass(p)
            lower  == lower_bound(Column(before, "value"), config.outlier_threshold)
            upper  == upper_bound(Column(before, "value"), config.outlier_threshold)
        IN  /\ Len(after) = Len(before)
            /\ \A i \in DOMAIN before :
                  /\ DOMAIN after[i] = DOMAIN before[i]
                  /\ after[i].idx = before[i].idx
                  /\ after[i].other = before[i].other
                  /\ after[i].tag = before[i].tag
                  /\ after[i].value = Clamped(before[i].value, lower, upper)
                  /\ RGt(before[i].value, upper) => RLt(after[i].value, before[i].value)
                  /\ RLt(before[i].value, lower) => RGt(after[i].value, before[i].value)

\* the first pass lowered the maximum, raised the minimum, left a value
\* inside the bounds as it was and kept a missing value missing
C24_Witness ==
    /\ Len(clip_hist) >= 1
    /\ \E i, j, m, n \in DOMAIN clip_df :
          /\ RLt(clip_df[i].value, clip_hist[1][i].value)
          /\ RGt(clip_df[j].value, clip_hist[1][j].value)
          /\ ~IsNaN(clip_df[m].value) /\ clip_df[m].value = clip_hist[1][m].value
          /\ IsNaN(clip_hist[1][n].value)
    /\ Len(clip_df) = Len(clip_hist[1])

\* ------------------------------------------------------------------------
\* SpecCustomer: clean_customer_data called on a raw customer table
\* ------------------------------------------------------------------------
\* config['metrics']: min_sessions and min_revenue
CustomerConfigs ==
    [outlier_threshold : Thresholds, min_sessions : {I(0), I(1)},
     min_revenue : {I(0)}]

CustomerCells ==
    [sessions : {NaN, I(-1), I(0), I(5)}, revenue : {I(-1), I(8)}]

CustomerTable(cells) ==
    [i \in DOMAIN cells |->
        [idx |-> i, gender |-> <<109>>, country |-> <<117, 107>>,
         sessions |-> cells[i].sessions, revenue |-> cells[i].revenue]]

InitCustomer ==
    /\ config \in CustomerConfigs
    /\ customers_df \in
          {CustomerTable(cells) : cells \in SeqsUpTo(CustomerCells, MaxCustomers)}
    /\ clean_customers = <<>>
    /\ cust_status = "input"
    /\ IdleClip
    /\ IdleCamp
    /\ IdleSeg
    /\ IdleRoi
    /\ IdleChan
    /\ IdleMain
    /\ IdleReport
    /\ IdleLoad

CleanCustomerData ==
    /\ cust_status = "input"
    /\ IF ModeRowMissing(customers_df)
       THEN /\ cust_status' = "IndexError"
            /\ UNCHANGED clean_customers
       ELSE /\ cust_status' = "ok"
            /\ clean_customers' = clean_customer_data(customers_df, config)
    /\ UNCHANGED <<config, loadVars, reportVars, customers_df, clipVars, campVars, segVars, roiVars,
                   chanVars, mainVars>>

NextCustomer == CleanCustomerData

SpecCustomer == InitCustomer /\ [][NextCustomer]_vars

\* C5: every row clean_customer_data returns has sessions >= min_sessions and
\* revenue >= min_revenue, on the final values, after the outlier clipping.
C5_OutputMeetsThresholds ==
    cust_status = "ok" =>
        \A i \in DOMAIN clean_customers :
            /\ RGe(clean_customers[i].sessions, config.min_sessions)
            /\ RGe(clean_customers[i].revenue, config.min_revenue)

\* the rows that reach the clipping step
PreClip == drop_duplicates(handle_missing_values(customers_df))

\* a row was returned whose sessions or revenue the clipping changed
C5_Witness ==
    /\ cust_status = "ok"
    /\ \E i \in DOMAIN clean_customers : \E j \in DOMAIN PreClip :
          /\ PreClip[j].idx = clean_customers[i].idx
          /\ \/ PreClip[j].sessions # clean_customers[i].sessions
             \/ PreClip[j].revenue # clean_customers[i].revenue

OutputLabels == {clean_customers[i].idx : i \in DOMAIN clean_customers}

\* C6: the threshold filter uses the values after imputation and
\* deduplication and before clipping: a row that reaches the filter is
\* returned exactly when its sessions >= min_sessions and its revenue >=
\* min_revenue there, and an input row whose own sessions or revenue is below
\* the threshold is never returned.
C6_FilterBeforeClip ==
    cust_status = "ok" =>
        /\ \A j \in DOMAIN PreClip :
              PreClip[j].idx \in OutputLabels
                 <=> /\ RGe(PreClip[j].sessions, config.min_sessions)
                     /\ RGe(PreClip[j].revenue, config.min_revenue)
        /\ \A i \in DOMAIN customers_df :
              (\/ RLt(customers_df[i].sessions, config.min_sessions)
               \/ RLt(customers_df[i].revenue, config.min_revenue))
                 => customers_df[i].idx \notin OutputLabels

\* a row with sessions below the threshold was dropped although the bounds
\* of the column it would have been clipped with lie above the threshold
C6_Witness ==
    /\ cust_status = "ok"
    /\ clean_customers # <<>>
    /\ \E i \in DOMAIN customers_df :
          /\ RLt(customers_df[i].sessions, config.min_sessions)
          /\ customers_df[i].idx \notin OutputLabels
          /\ RGe(lower_bound(Column(PreClip, "sessions"), config.outlier_threshold),
                 config.min_sessions)

\* ------------------------------------------------------------------------
\* SpecCampaign: clean_campaign_data called on a raw campaign table
\* ------------------------------------------------------------------------
CampaignConfigs == [outlier_threshold : {I(0), R(3, 2)}]

\* a missing name and " a_b  c"
CampaignNames == {None, <<32, 97, 95, 98, 32, 32, 99>>}

\* campaigns that were shown (1000 impressions, 50 clicks, 5 conversions) on
\* the channel "e" or on no recorded channel, campaigns shown on the channel
\* "s", and a campaign of cost 0 that never was shown
CampaignCells ==
    [campaign_name : CampaignNames, channel : {None, <<101>>},
     cost : {NaN, I(0), I(100)}, shown : {TRUE}]
    \cup
    [campaign_name : {<<32, 97, 95, 98, 32, 32, 99>>}, channel : {<<115>>},
     cost : {NaN, I(0)}, shown : {TRUE}]
    \cup
    [campaign_name : {<<32, 97, 95, 98, 32, 32, 99>>}, channel : {<<101>>},
     cost : {I(0)}, shown : {FALSE}]

CampaignTable(cells) ==
    [i \in DOMAIN cells |->
        [idx |-> i, campaign_name |-> cells[i].campaign_name,
         channel |-> cells[i].channel, cost |-> cells[i].cost,
         impressions |-> IF cells[i].shown THEN I(1000) ELSE I(0),
         clicks |-> IF cells[i].shown THEN I(50) ELSE I(0),
         conversions |-> IF cells[i].shown THEN I(5) ELSE I(0),
         revenue |-> I(200)]]

InitCampaign ==
    /\ config \in CampaignConfigs
    /\ campaigns_df \in
          {CampaignTable(cells) : cells \in SeqsUpTo(CampaignCells, MaxCampaigns)}
    /\ camp_filled = <<>>
    /\ clean_campaigns = <<>>
    /\ camp_status = "input"
    /\ IdleClip
    /\ IdleCust
    /\ IdleSeg
    /\ IdleRoi
    /\ IdleChan
    /\ IdleMain
    /\ IdleReport
    /\ IdleLoad

CleanCampaignData ==
    /\ camp_status = "input"
    /\ IF ModeRowMissing(campaigns_df)
       THEN /\ camp_status' = "IndexError"
            /\ UNCHANGED <<camp_filled, clean_campaigns>>
       ELSE /\ camp_status' = "ok"
            /\ camp_filled' = handle_missing_values(campaigns_df)
            /\ clean_campaigns' = clean_campaign_data(campaigns_df, config)
    /\ UNCHANGED <<config, loadVars, reportVars, campaigns_df, clipVars, custVars, segVars, roiVars,
                   chanVars, mainVars>>

NextCampaign == CleanCampaignData

SpecCampaign == InitCampaign /\ [][NextCampaign]_vars

\* the number of distinct rows of a table
DistinctRows(df) == Len(drop_duplicates(df))

\* C9 as stated: the number of rows returned equals the number of distinct
\* rows of the input; no row is dropped because of missing fields.
C9_RowsAreDistinctInputRows ==
    camp_status = "ok" => Len(clean_campaigns) = DistinctRows(campaigns_df)

\* C9 amended: the number of rows returned equals the number of distinct
\* rows of the imputed table: a row goes exactly when it equals an earlier
\* row once the missing cells are filled.
C9_Amended ==
    camp_status = "ok" =>
        /\ Len(clean_campaigns) = DistinctRows(handle_missing_values(campaigns_df))
        /\ \A i \in DOMAIN campaigns_df :
              (\E o \in DOMAIN clean_campaigns : clean_campaigns[o].idx = i)
                 <=> \A j \in 1..(i - 1) :
                        ~SameRow(handle_missing_values(campaigns_df)[j],
                                 handle_missing_values(campaigns_df)[i])

\* all input rows differ, and a row with a missing cell was dropped
C9_Witness ==
    /\ camp_status = "ok"
    /\ DistinctRows(campaigns_df) = Len(campaigns_df)
    /\ Len(clean_campaigns) < Len(campaigns_df)

\* C10 as stated: every input row whose campaign_name is missing comes out
\* with campaign_name "Unknown Campaign".
C10_MissingNameIsUnknownCampaign ==
    camp_status = "ok" =>
        \A o \in DOMAIN clean_campaigns :
            campaigns_df[clean_campaigns[o].idx].campaign_name = None
               => clean_campaigns[o].campaign_name = UnknownCampaign

\* C11 as stated: no campaign_name in the output of clean_campaign_data
\* contains an underscore, for any input names.
C11_NoUnderscoreInNames ==
    camp_status = "ok" =>
        \A o \in DOMAIN clean_campaigns :
            \A k \in DOMAIN clean_campaigns[o].campaign_name :
                clean_campaigns[o].campaign_name[k] # 95

\* C14: for every row clean_campaign_data returns, roi is
\* (revenue - cost) / (cost + eps) * 100 of that row's own revenue and cost
\* as returned, after the imputation and the clipping.
C14_RoiFromCleanedValues ==
    camp_status = "ok" =>
        \A o \in DOMAIN clean_campaigns :
            LET r == clean_campaigns[o]
            IN  IF IsNaN(r.cost) \/ IsNaN(r.revenue)
                THEN IsNaN(r.roi.num) /\ IsNaN(r.roi.den)
                ELSE /\ r.roi.den = r.cost
                     /\ RAdd(r.roi.num, RMul(r.cost, I(100)))
                           = RMul(r.revenue, I(100))

\* a row whose cost was present and has been moved by the clipping
C14_Witness ==
    /\ camp_status = "ok"
    /\ \E o \in DOMAIN clean_campaigns :
          LET r == clean_campaigns[o]
              i == campaigns_df[r.idx]
          IN  /\ ~IsNaN(i.cost)
              /\ ~IsNaN(r.cost)
              /\ r.cost # i.cost
              /\ r.roi.den = r.cost

\* C15: clean_campaign_data never raises because of a zero denominator, and
\* for rows with impressions, clicks, conversions or cost 0 the metrics ctr,
\* conversion_rate, cost_per_click, cost_per_conversion, roi and roas are
\* all finite.
C15_GuardedMetricsAreFinite ==
    /\ camp_status = "IndexError" => ModeRowMissing(campaigns_df)
    /\ camp_status = "ok" =>
          \A o \in DOMAIN clean_campaigns :
              LET r == clean_campaigns[o]
              IN  (\A c \in {"cost", "impressions", "clicks", "conversions",
                              "revenue"} : IsFinite(r[c]))
                  => \A m \in {"ctr", "conversion_rate", "cost_per_click",
                                "cost_per_conversion", "roi", "roas"} :
                        GuardedFinite(r[m])

\* a returned row with impressions, clicks, conversions and cost all 0
C15_Witness ==
    /\ camp_status = "ok"
    /\ \E o \in DOMAIN clean_campaigns :
          LET r == clean_campaigns[o]
          IN  /\ r.impressions = I(0)
              /\ r.clicks = I(0)
              /\ r.conversions = I(0)
              /\ r.cost = I(0)
              /\ GuardedFinite(r.ctr)
              /\ GuardedFinite(r.roi)
    /\ Len(clean_campaigns) > 1

\* the cell of column c is missing in the row
Missing(row, c) == IF c \in NumericDtype THEN IsNaN(row[c]) ELSE row[c] = None

\* the column c of the table has at least one present value
HasPresent(df, c) == \E i \in DOMAIN df : ~Missing(df[i], c)

\* v is the k-th smallest of the present values of the numeric column s
KthSmallest(s, k, v) ==
    LET present == DropNaN(s)
    IN  /\ \E i \in DOMAIN present : present[i] = v
        /\ Cardinality({i \in DOMAIN present : RLt(present[i], v)}) < k
        /\ k <= Cardinality({i \in DOMAIN present : RLe(present[i], v)})

\* m is the median of the present values of s: the middle one, or the mean
\* of the two middle ones
IsMedianOf(m, s) ==
    LET n == Len(DropNaN(s))
    IN  IF n % 2 = 1 THEN KthSmallest(s, (n + 1) \div 2, m)
        ELSE \E i, j \in DOMAIN s :
                /\ KthSmallest(s, n \div 2, s[i])
                /\ KthSmallest(s, (n \div 2) + 1, s[j])
                /\ m = RDiv(RAdd(s[i], s[j]), I(2))

\* v is the most frequent present value of the text column s, the first in
\* sorted order among the values that are as frequent
IsFirstModeOf(v, s) ==
    /\ v # None
    /\ CountOf(s, v) > 0
    /\ \A i \in DOMAIN s :
          s[i] # None =>
              /\ CountOf(s, s[i]) <= CountOf(s, v)
              /\ CountOf(s, s[i]) = CountOf(s, v) => (s[i] = v \/ TextLt(v, s[i]))

\* the cell holds the fill value of column c of the raw table
HoldsFillValue(cell, c) ==
    IF c \in NumericDtype THEN IsMedianOf(cell, Column(campaigns_df, c))
    ELSE IsFirstModeOf(cell, Column(campaigns_df, c))

\* C21 as stated: after clean_campaign_data every originally missing cell of
\* a column with a present value holds the column's median (numeric) or its
\* most frequent value, ties to the first in sorted order (text).
C21_FilledCellsAfterCleaner ==
    camp_status = "ok" =>
        \A o \in DOMAIN clean_campaigns : \A c \in ColumnsOf(campaigns_df) :
            (/\ Missing(campaigns_df[clean_campaigns[o].idx], c)
             /\ HasPresent(campaigns_df, c))
                => HoldsFillValue(clean_campaigns[o][c], c)

\* C21 amended: in the table _handle_missing_values returns, every originally
\* missing cell of a column with a present value holds the column's median
\* (numeric) or its most frequent value, ties to the first in sorted order
\* (text), and every other cell is as it was; after clean_campaign_data no
\* cell of such a column is missing, but the cell holds what the later steps
\* made of the fill value.
C21_Amended ==
    camp_status = "ok" =>
        /\ Len(camp_filled) = Len(campaigns_df)
        /\ \A i \in DOMAIN campaigns_df : \A c \in ColumnsOf(campaigns_df) :
              IF Missing(campaigns_df[i], c)
              THEN HasPresent(campaigns_df, c)
                      => /\ HoldsFillValue(camp_filled[i][c], c)
                         /\ ~Missing(camp_filled[i], c)
              ELSE camp_filled[i][c] = campaigns_df[i][c]
        /\ \A o \in DOMAIN clean_campaigns : \A c \in ColumnsOf(campaigns_df) :
              HasPresent(campaigns_df, c) => ~Missing(clean_campaigns[o], c)

\* a missing cost filled with the mean of the two present costs, a missing
\* channel filled where two channels are as frequent, and a missing name
\* whose fill value the cleaner standardized afterwards
C21_Witness ==
    /\ camp_status = "ok"
    /\ \E i \in DOMAIN campaigns_df :
          /\ IsNaN(campaigns_df[i].cost)
          /\ camp_filled[i].cost = I(50)
    /\ \E i \in DOMAIN campaigns_df :
          /\ campaigns_df[i].channel = None
          /\ camp_filled[i].channel = <<101>>
          /\ \E j \in DOMAIN campaigns_df : campaigns_df[j].channel = <<115>>
    /\ \E o \in DOMAIN clean_campaigns :
          /\ campaigns_df[clean_campaigns[o].idx].campaign_name = None
          /\ clean_campaigns[o].campaign_name # None
          /\ clean_campaigns[o].campaign_name
                # camp_filled[clean_campaigns[o].idx].campaign_name

\* C22 as stated: when a column of a non-empty input is entirely missing,
\* numeric or text, also when every text column is, _handle_missing_values
\* does not raise; it returns the table with that column left missing and
\* the other columns imputed.
C22_AllMissingColumnIsLeftMissing ==
    (/\ camp_status # "input"
     /\ campaigns_df # <<>>
     /\ \E c \in ColumnsOf(campaigns_df) : ~HasPresent(campaigns_df, c))
        => /\ camp_status = "ok"
           /\ Len(camp_filled) = Len(campaigns_df)
           /\ \A i \in DOMAIN campaigns_df : \A c \in ColumnsOf(campaigns_df) :
                 Missing(camp_filled[i], c) <=> ~HasPresent(campaigns_df, c)

\* ------------------------------------------------------------------------
\* SpecSegment: segment_customers called on a cleaned customer table
\* ------------------------------------------------------------------------
\* config['model']['clustering']['n_clusters']
SegmentConfigs == [n_clusters : {2, 3, 4}]

SegmentCells == [revenue : {I(100), I(500), I(1500), I(2000)}]

SegmentTable(cells) ==
    [i \in DOMAIN cells |->
        [idx |-> i, sessions |-> I(10), transactions |-> I(2),
         revenue |-> cells[i].revenue]]

InitSegment ==
    /\ config \in SegmentConfigs
    /\ seg_df \in {SegmentTable(cells) : cells \in SeqsUpTo(SegmentCells, MaxSegmented)}
    /\ seg_input = seg_df
    /\ seg_status = "input"
    /\ IdleClip
    /\ IdleCust
    /\ IdleCamp
    /\ IdleRoi
    /\ IdleChan
    /\ IdleMain
    /\ IdleReport
    /\ IdleLoad

SegmentCustomers ==
    /\ seg_status = "input"
    /\ \E out \in segment_customers(seg_df, config.n_clusters) :
          /\ seg_status' = out.status
          /\ seg_df' = out.df
    /\ UNCHANGED <<config, loadVars, reportVars, seg_input, clipVars, custVars, campVars, roiVars, chanVars,
                   mainVars>>

NextSegment == SegmentCustomers

SpecSegment == InitSegment /\ [][NextSegment]_vars

\* C8 as stated: with n_clusters other than 3, smaller or larger,
\* segment_customers fails with an error instead of returning a table; it
\* never returns a table in which a customer has a missing segment label.
C8_FailsUnlessThreeClusters ==
    /\ (seg_status # "input" /\ config.n_clusters # 3) => seg_status # "ok"
    /\ seg_status = "ok" =>
          \A i \in DOMAIN seg_df : seg_df[i].segment # NoSegment

\* C16: after segment_customers with 3 clusters the row count is unchanged
\* and every customer row carries one of the three segment names, rows of
\* the same cluster id the same name and rows of different cluster ids
\* different names.
C16_LabelsPartitionCustomers ==
    (seg_status = "ok" /\ config.n_clusters = 3) =>
        /\ Len(seg_df) = Len(seg_input)
        /\ \A i \in DOMAIN seg_df :
              /\ \A c \in DOMAIN seg_input[i] : seg_df[i][c] = seg_input[i][c]
              /\ \E k \in DOMAIN SegmentNames : seg_df[i].segment = SegmentNames[k]
        /\ \A i, j \in DOMAIN seg_df :
              seg_df[i].cluster = seg_df[j].cluster
                 <=> seg_df[i].segment = seg_df[j].segment

\* four customers in three clusters, all three names in use
C16_Witness ==
    /\ seg_status = "ok"
    /\ config.n_clusters = 3
    /\ Len(seg_df) = 4
    /\ \A k \in DOMAIN SegmentNames :
          \E i \in DOMAIN seg_df : seg_df[i].segment = SegmentNames[k]

\* mean revenue of the customers that carry the segment name
SegmentMeanRevenue(name) ==
    Mean(Column(RowsWhere(seg_df, "segment", name), "revenue"))

\* C17: with three clusters the cluster of the highest mean revenue is
\* named "High-Value Buyers", the next "Deal Seekers", the lowest "Casual
\* Visitors", whatever the cluster ids are: mean revenue of High-Value
\* Buyers >= Deal Seekers >= Casual Visitors.
C17_LabelsRankedByMeanRevenue ==
    (seg_status = "ok" /\ config.n_clusters = 3) =>
        /\ RGe(SegmentMeanRevenue("High-Value Buyers"),
               SegmentMeanRevenue("Deal Seekers"))
        /\ RGe(SegmentMeanRevenue("Deal Seekers"),
               SegmentMeanRevenue("Casual Visitors"))
        /\ \A i, j \in DOMAIN seg_df :
              seg_df[i].segment = "High-Value Buyers" =>
                  RGe(ClusterMeanRevenue(seg_df, seg_df[i].cluster),
                      ClusterMeanRevenue(seg_df, seg_df[j].cluster))

\* clusters 0, 1, 2 with mean revenues 500, 1500, 100
C17_Witness ==
    /\ seg_status = "ok"
    /\ config.n_clusters = 3
    /\ ClusterIds(seg_df) = {0, 1, 2}
    /\ ClusterMeanRevenue(seg_df, 0) = I(500)
    /\ ClusterMeanRevenue(seg_df, 1) = I(1500)
    /\ ClusterMeanRevenue(seg_df, 2) = I(100)
    /\ \A i \in DOMAIN seg_df :
          seg_df[i].segment =
             (CASE seg_df[i].cluster = 1 -> "High-Value Buyers"
                [] seg_df[i].cluster = 0 -> "Deal Seekers"
                [] OTHER -> "Casual Visitors")

\* C26 as stated, for segment_customers: when the call is over, the table
\* the caller handed in has exactly the columns and values it had before.
C26_InputTableUnchanged ==
    seg_status # "input" => seg_df = seg_input

\* ------------------------------------------------------------------------
\* SpecRoi: a caller of the ROICalculator with one campaign table
\* ------------------------------------------------------------------------
RoiConfigs == [processed_data : {"data/processed"}]

\* campaigns with clicks and conversions, of any cost and revenue, and
\* campaigns of cost 100 and revenue 200 without clicks or conversions
RoiCells ==
    [channel : {<<101>>, <<115>>}, cost : {I(-50), I(0), I(100)},
     revenue : {I(-20), I(200)}, clicks : {I(50)}, conversions : {I(5)}]
    \cup
    [channel : {<<101>>}, cost : {I(100)}, revenue : {I(200)},
     clicks : {I(0), I(50)}, conversions : {I(0), I(5)}]

RoiTable(cells) ==
    [i \in DOMAIN cells |->
        [idx |-> i, campaign_name |-> <<97>>, channel |-> cells[i].channel,
         cost |-> cells[i].cost, revenue |-> cells[i].revenue,
         impressions |-> I(1000), clicks |-> cells[i].clicks,
         conversions |-> cells[i].conversions]]

InitRoi ==
    /\ config \in RoiConfigs
    /\ roi_input \in {RoiTable(cells) : cells \in SeqsUpTo(RoiCells, MaxRoiRows)}
    /\ roi_valid = "unchecked"
    /\ roi_df = <<>>
    /\ roi_files = {}
    /\ roi_status = "input"
    /\ IdleClip
    /\ IdleCust
    /\ IdleCamp
    /\ IdleSeg
    /\ IdleChan
    /\ IdleMain
    /\ IdleReport
    /\ IdleLoad

ValidateData ==
    /\ roi_valid = "unchecked"
    /\ roi_valid' = validate_data(roi_input)
    /\ UNCHANGED <<config, loadVars, reportVars, roi_input, roi_df, roi_files, roi_status, clipVars,
                   custVars, campVars, segVars, chanVars, mainVars>>

\* nothing in calculate_campaign_roi looks at roi_valid: the method runs
\* whether or not validate_data was called, and whatever it answered
CalculateCampaignRoi ==
    /\ roi_status = "input"
    /\ \E failure \in IOFailures :
          /\ roi_status' = IF failure = "none" THEN "ok" ELSE "OSError"
          /\ roi_df' = IF failure = "none"
                       THEN calculate_campaign_roi(roi_input) ELSE <<>>
          /\ roi_files' = FilesWritten(failure)
          /\ channel_summary' =
                IF failure = "makedirs" THEN <<>>
                ELSE analyze_channel_performance(calculate_campaign_roi(roi_input))
    /\ UNCHANGED <<config, loadVars, reportVars, roi_input, roi_valid, chan_df, chan_status,
                   clipVars, custVars, campVars, segVars, mainVars>>

NextRoi == ValidateData \/ CalculateCampaignRoi

SpecRoi == InitRoi /\ [][NextRoi]_vars

\* C1 as stated: calculate_campaign_roi, given a table with a row of
\* cost <= 0, raises before computing any metric: no table is returned and
\* no output file is written.
C1_RaisesOnNonPositiveCost ==
    (/\ roi_status \notin {"idle", "input"}
     /\ \E i \in DOMAIN roi_input : RLe(roi_input[i].cost, I(0)))
    => /\ roi_status # "ok"
       /\ roi_df = <<>>
       /\ roi_files = {}

\* q is the quotient a / b of two present numbers: q * b = a when b is not 0,
\* and the infinity of a's sign, or NaN for 0 / 0, when it is
IsQuotient(q, a, b) ==
    IF b # I(0) THEN IsFinite(q) /\ RMul(q, b) = a
    ELSE IF RGt(a, I(0)) THEN q = PosInf
    ELSE IF RLt(a, I(0)) THEN q = NegInf
    ELSE q = NaN

\* C12: for a validated input, calculate_campaign_roi returns the rows of
\* the input in the same number and order, each with roi = (revenue - cost)
\* / cost * 100, profit = revenue - cost, roas = revenue / cost, cpc = cost /
\* clicks, cpa = cost / conversions and conversion_value = revenue /
\* conversions of that row's own values.
C12_MetricsPerRow ==
    (roi_status = "ok" /\ validate_data(roi_input) = "True") =>
        /\ Len(roi_df) = Len(roi_input)
        /\ \A i \in DOMAIN roi_df :
              LET r == roi_input[i]
                  o == roi_df[i]
              IN  /\ \A c \in DOMAIN r : o[c] = r[c]
                  /\ RAdd(o.profit, r.cost) = r.revenue
                  /\ RMul(o.roi, r.cost) = RMul(o.profit, I(100))
                  /\ RMul(o.roas, r.cost) = r.revenue
                  /\ IsQuotient(o.cpc, r.cost, r.clicks)
                  /\ IsQuotient(o.cpa, r.cost, r.conversions)
                  /\ IsQuotient(o.conversion_value, r.revenue, r.conversions)

\* two validated rows, the first with cost 100 and revenue 200: roi 100,
\* profit 100, roas 2
C12_Witness ==
    /\ roi_status = "ok"
    /\ validate_data(roi_input) = "True"
    /\ Len(roi_df) = 2
    /\ roi_input[1].cost = I(100)
    /\ roi_input[1].revenue = I(200)
    /\ roi_df[1].roi = I(100)
    /\ roi_df[1].profit = I(100)
    /\ roi_df[1].roas = I(2)
    /\ roi_df[2].idx = 2

\* C13: a row with clicks = 0 or conversions = 0 raises nothing in
\* calculate_campaign_roi and is not clipped or replaced: its cpc, cpa or
\* conversion_value is an infinity or NaN, and the rows with clicks and
\* conversions have finite cpc, cpa and conversion_value.
C13_ZeroDenominatorIsMarked ==
    /\ roi_status \in {"idle", "input", "ok", "OSError"}
    /\ roi_status = "ok" =>
          /\ Len(roi_df) = Len(roi_input)
          /\ \A i \in DOMAIN roi_df :
                LET r == roi_input[i]
                    o == roi_df[i]
                IN  /\ r.clicks = I(0) <=> ~IsFinite(o.cpc)
                    /\ r.conversions = I(0) <=> ~IsFinite(o.cpa)
                    /\ r.conversions = I(0) <=> ~IsFinite(o.conversion_value)
                    /\ r.clicks # I(0) => RMul(o.cpc, r.clicks) = r.cost
                    /\ r.conversions # I(0) =>
                          RMul(o.cpa, r.conversions) = r.cost

\* a campaign without clicks and conversions next to one with both
C13_Witness ==
    /\ roi_status = "ok"
    /\ Len(roi_df) = 2
    /\ roi_input[1].clicks = I(0)
    /\ roi_input[1].conversions = I(0)
    /\ roi_df[1].cpc = PosInf
    /\ roi_df[1].cpa = PosInf
    /\ roi_df[1].conversion_value = PosInf
    /\ roi_input[2].clicks = I(50)
    /\ roi_df[2].cpc = I(2)

\* ------------------------------------------------------------------------
\* SpecValidate: validate_data called on any campaign table, also one that
\* lacks columns or holds missing values
\* ------------------------------------------------------------------------
ValidateCells ==
    [cost : {NaN, I(-50), I(0), I(100)}, revenue : {NaN, I(-20), I(200)}]

\* the columns the table lacks
DroppedColumns == {{}, {"impressions"}, {"cost"}, {"cost", "channel"}}

ValidateTable(cells, dropped) ==
    [i \in DOMAIN cells |->
        [c \in (RequiredColumns \cup {"idx"}) \ dropped |->
            CASE c = "idx" -> i
              [] c = "campaign_name" -> <<97>>
              [] c = "channel" -> <<101>>
              [] c = "cost" -> cells[i].cost
              [] c = "revenue" -> cells[i].revenue
              [] c = "impressions" -> I(1000)
              [] c = "clicks" -> I(50)
              [] OTHER -> I(5)]]

InitValidate ==
    /\ config \in RoiConfigs
    /\ roi_input \in {ValidateTable(cells, dropped) :
                         cells \in SeqsUpTo(ValidateCells, MaxRoiRows),
                         dropped \in DroppedColumns}
    /\ roi_valid = "unchecked"
    /\ roi_df = <<>>
    /\ roi_files = {}
    /\ roi_status = "idle"
    /\ channel_summary = <<>>
    /\ chan_df = <<>>
    /\ chan_status = "idle"
    /\ IdleClip
    /\ IdleCust
    /\ IdleCamp
    /\ IdleSeg
    /\ IdleMain
    /\ IdleReport
    /\ IdleLoad

NextValidate == ValidateData

SpecValidate == InitValidate /\ [][NextValidate]_vars

\* C23 as stated: validate_data returns True exactly when the table is not
\* empty, has all seven required columns, cost > 0 in every row and
\* revenue >= 0 in every row; otherwise it raises the error of the first
\* violated condition, in the order empty input, missing columns,
\* zero/negative cost, negative revenue.
C23_TrueExactlyWhenValid ==
    roi_valid # "unchecked" =>
        roi_valid =
            IF roi_input = <<>> THEN "Input DataFrame is empty"
            ELSE IF \E c \in RequiredColumns : c \notin DOMAIN roi_input[1]
                 THEN "Missing required columns"
            ELSE IF ~(\A i \in DOMAIN roi_input : RGt(roi_input[i].cost, I(0)))
                 THEN "Found campaigns with zero or negative cost"
            ELSE IF ~(\A i \in DOMAIN roi_input :
                         RGe(roi_input[i].revenue, I(0)))
                 THEN "Found campaigns with negative revenue"
            ELSE "True"

\* ------------------------------------------------------------------------
\* SpecChannel: analyze_channel_performance on a table with the ROI columns
\* ------------------------------------------------------------------------
\* a row opens a new channel or stays in the channel of the row before it
ChannelCells == [fresh : BOOLEAN, revenue : {I(50), I(200)}]

ChannelOf(cells, i) == <<97 + Cardinality({j \in 2..i : cells[j].fresh})>>

\* a campaign of revenue 50 had 1000 impressions, 50 clicks and 5
\* conversions, one of revenue 200 had 3000, 60 and 30
ChannelTable(cells) ==
    [i \in DOMAIN cells |->
        [idx |-> i, campaign_name |-> <<97>>, channel |-> ChannelOf(cells, i),
         cost |-> I(100), revenue |-> cells[i].revenue,
         impressions |-> IF cells[i].revenue = I(50) THEN I(1000) ELSE I(3000),
         clicks |-> IF cells[i].revenue = I(50) THEN I(50) ELSE I(60),
         conversions |-> IF cells[i].revenue = I(50) THEN I(5) ELSE I(30)]]

InitChannel ==
    /\ config \in RoiConfigs
    /\ chan_df \in {calculate_campaign_roi(ChannelTable(cells)) :
                       cells \in SeqsUpTo(ChannelCells, MaxChannelRows)}
    /\ channel_summary = <<>>
    /\ chan_status = "input"
    /\ IdleClip
    /\ IdleCust
    /\ IdleCamp
    /\ IdleSeg
    /\ IdleRoi
    /\ IdleMain
    /\ IdleReport
    /\ IdleLoad

AnalyzeChannelPerformance ==
    /\ chan_status = "input"
    /\ chan_status' = "ok"
    /\ channel_summary' = analyze_channel_performance(chan_df)
    /\ UNCHANGED <<config, loadVars, reportVars, chan_df, clipVars, custVars, campVars, segVars,
                   roiVars, mainVars>>

NextChannel == AnalyzeChannelPerformance

SpecChannel == InitChannel /\ [][NextChannel]_vars

\* sum(channel_summary.profit_contribution)
ContributionSum == Sum(Column(channel_summary, "profit_contribution"))

\* total_profit of the returned table
TotalProfit == Sum(Column(channel_summary, "profit"))

\* how far the contributions are from summing to 100
ContributionError == RAbs(RSub(ContributionSum, I(100)))

\* C7 as stated: for every table analyze_channel_performance returns, the
\* profit_contribution values sum to 100.0 within 0.1, for any number of
\* channels and any per-channel profits.
C7_ContributionsSumTo100 ==
    chan_status = "ok" => RLe(ContributionError, R(1, 10))

\* C7, amended: when the total profit is not 0, the profit_contribution
\* values sum to 100 within 0.05 per channel (each value is rounded to one
\* decimal on its own), which is within 0.1 for up to three channels.
C7_Amended ==
    (chan_status = "ok" /\ TotalProfit # I(0)) =>
        /\ RLe(ContributionError, RMul(R(1, 20), I(Len(channel_summary))))
        /\ Len(channel_summary) <= 3 => RLe(ContributionError, R(1, 10))

\* six channels of equal profit: 6 * 16.7 = 100.2
C7_Witness ==
    /\ chan_status = "ok"
    /\ TotalProfit # I(0)
    /\ Len(channel_summary) = 6
    /\ ContributionError = R(1, 5)

\* the total of column c over the first n input rows of channel ch
RECURSIVE TotalOver(_, _, _)
TotalOver(c, ch, n) ==
    IF n = 0 THEN I(0)
    ELSE RAdd(TotalOver(c, ch, n - 1),
              IF chan_df[n].channel = ch THEN chan_df[n][c] ELSE I(0))

\* the number of input rows of channel ch
RowsOfChannel(ch) ==
    Cardinality({i \in DOMAIN chan_df : chan_df[i].channel = ch})

SummedColumns ==
    {"cost", "revenue", "conversions", "profit", "impressions", "clicks"}

\* C19: analyze_channel_performance returns exactly one row per distinct
\* channel of the input; cost, revenue, conversions, profit, impressions
\* and clicks of a channel are the sums over the channel's input rows, so
\* that the channel values add up to the input column total up to the
\* 2-decimal rounding, and roi and roas are the means over the channel's rows.
C19_OneRowPerChannelWithSums ==
    chan_status = "ok" =>
        /\ \A k, l \in DOMAIN channel_summary :
              channel_summary[k].channel = channel_summary[l].channel => k = l
        /\ {channel_summary[k].channel : k \in DOMAIN channel_summary}
              = {chan_df[i].channel : i \in DOMAIN chan_df}
        /\ \A k \in DOMAIN channel_summary :
              LET row == channel_summary[k]
                  n   == Len(chan_df)
              IN  /\ \A c \in SummedColumns :
                        row[c] = Round(TotalOver(c, row.channel, n), 2)
                  /\ \A c \in {"roi", "roas"} :
                        row[c] = Round(RDiv(TotalOver(c, row.channel, n),
                                            I(RowsOfChannel(row.channel))), 2)
        /\ \A c \in SummedColumns :
              RLe(RAbs(RSub(Sum(Column(channel_summary, c)),
                            Sum(Column(chan_df, c)))),
                  RMul(R(1, 200), I(Len(channel_summary))))

\* six campaigns in three channels, one channel with campaigns of different
\* revenue
C19_Witness ==
    /\ chan_status = "ok"
    /\ Len(chan_df) = 6
    /\ Len(channel_summary) = 3
    /\ \E i, j \in DOMAIN chan_df :
          /\ chan_df[i].channel = chan_df[j].channel
          /\ chan_df[i].revenue # chan_df[j].revenue
    /\ Sum(Column(channel_summary, "revenue")) = Sum(Column(chan_df, "revenue"))

\* the mean over the rows of channel ch of 100 * a / b taken row by row
MeanOfRowRates(ch, a, b) ==
    LET g == RowsWhere(chan_df, "channel", ch)
    IN  Mean([i \in DOMAIN g |-> RMul(RDiv(g[i][a], g[i][b]), I(100))])

\* C20: in the channel summary ctr is sum(clicks) / sum(impressions) * 100
\* and conversion_rate is sum(conversions) / sum(clicks) * 100 of the
\* channel's totals (rounded to 2 decimals), not the mean of the row-level
\* rates.
C20_RatesFromTotals ==
    chan_status = "ok" =>
        \A k \in DOMAIN channel_summary :
            LET row == channel_summary[k]
                n   == Len(chan_df)
                clicks      == TotalOver("clicks", row.channel, n)
                impressions == TotalOver("impressions", row.channel, n)
                conversions == TotalOver("conversions", row.channel, n)
            IN  /\ row.ctr = Round(RMul(RDiv(clicks, impressions), I(100)), 2)
                /\ row.conversion_rate =
                      Round(RMul(RDiv(conversions, clicks), I(100)), 2)

\* a channel whose ctr and conversion_rate differ from the rounded means of
\* its campaigns' rates
C20_Witness ==
    /\ chan_status = "ok"
    /\ \E k \in DOMAIN channel_summary :
          LET row == channel_summary[k]
          IN  /\ RowsOfChannel(row.channel) > 1
              /\ row.ctr #
                    Round(MeanOfRowRates(row.channel, "clicks", "impressions"), 2)
              /\ row.conversion_rate #
                    Round(MeanOfRowRates(row.channel, "conversions", "clicks"), 2)

\* ------------------------------------------------------------------------
\* SpecReport: generate_roi_report on a table with the ROI columns
\* ------------------------------------------------------------------------
\* revenue 200 at cost 0, 100 or 200: roi inf, 100 or 0
ReportCells == [cost : {I(0), I(100), I(200)}]

\* every campaign has a name of its own
ReportTable(cells) ==
    [i \in DOMAIN cells |->
        [idx |-> i, campaign_name |-> <<96 + i>>, channel |-> <<101>>,
         cost |-> cells[i].cost, revenue |-> I(200),
         impressions |-> I(1000), clicks |-> I(50), conversions |-> I(5)]]

InitReport ==
    /\ config \in RoiConfigs
    /\ report_df \in {calculate_campaign_roi(ReportTable(cells)) :
                         cells \in SeqsUpTo(ReportCells, MaxReportRows)}
    /\ roi_report = <<>>
    /\ report_status = "input"
    /\ IdleClip
    /\ IdleCust
    /\ IdleCamp
    /\ IdleSeg
    /\ IdleRoi
    /\ IdleChan
    /\ IdleMain
    /\ IdleLoad

GenerateRoiReport ==
    /\ report_status = "input"
    /\ report_status' = "ok"
    /\ roi_report' = generate_roi_report(report_df)
    /\ UNCHANGED <<config, loadVars, report_df, clipVars, custVars, campVars, segVars,
                   roiVars, chanVars, mainVars>>

NextReport == GenerateRoiReport

SpecReport == InitReport /\ [][NextReport]_vars

\* the number of rows listed before row i when the rows are ordered by roi,
\* descending if largest and ascending if not, rows of equal roi in input
\* order
RoiRank(i, largest) ==
    Cardinality({j \in DOMAIN report_df :
        \/ Before(report_df[j].roi, report_df[i].roi, largest)
        \/ report_df[j].roi = report_df[i].roi /\ j < i})

\* the listing holds the min(5, n) rows of rank 0, 1, ... in this order
ListsByRank(listing, largest) ==
    /\ Len(listing) = (IF Len(report_df) < 5 THEN Len(report_df) ELSE 5)
    /\ \A i \in DOMAIN report_df :
          RoiRank(i, largest) < Len(listing) =>
              /\ listing[RoiRank(i, largest) + 1].campaign_name
                    = report_df[i].campaign_name
              /\ listing[RoiRank(i, largest) + 1].roi = report_df[i].roi

\* C18: top_campaigns holds the min(5, n) rows of largest roi in descending
\* order and bottom_campaigns the min(5, n) rows of smallest roi in
\* ascending order; among rows of equal roi the one earlier in the input is
\* selected first and listed first.
C18_TopAndBottomFive ==
    report_status = "ok" =>
        /\ ListsByRank(roi_report.top_campaigns, TRUE)
        /\ ListsByRank(roi_report.bottom_campaigns, FALSE)

\* six campaigns, the last three of one roi that is the largest: the top
\* five start with campaigns 4, 5, 6 in this order, the bottom five end with
\* campaigns 4 and 5 and leave campaign 6 out
C18_Witness ==
    /\ report_status = "ok"
    /\ Len(report_df) = 6
    /\ report_df[4].roi = report_df[5].roi
    /\ report_df[5].roi = report_df[6].roi
    /\ \A i \in 1..3 : RLt(report_df[i].roi, report_df[4].roi)
    /\ Len(roi_report.top_campaigns) = 5
    /\ roi_report.top_campaigns[1].campaign_name = report_df[4].campaign_name
    /\ roi_report.top_campaigns[2].campaign_name = report_df[5].campaign_name
    /\ roi_report.top_campaigns[3].campaign_name = report_df[6].campaign_name
    /\ roi_report.bottom_campaigns[4].campaign_name = report_df[4].campaign_name
    /\ roi_report.bottom_campaigns[5].campaign_name = report_df[5].campaign_name

\* ------------------------------------------------------------------------
\* SpecLoad: load_campaigns called on a database with a campaigns table
\* ------------------------------------------------------------------------
\* the columns of the stored table: the table of tests/test_data_loader.py,
\* the table setup_database.py creates, a table of just the selected
\* columns, the same with date first, and a table without a date column
StoredLayouts ==
    {<<"campaign_id", "campaign_name", "channel", "cost", "impressions",
       "clicks", "conversions", "revenue", "date">>,
     <<"id", "campaign_name", "channel", "cost", "impressions", "clicks",
       "conversions", "revenue", "date", "created_at">>,
     SelectedColumns,
     <<"date", "campaign_name", "channel", "cost", "impressions", "clicks",
       "conversions", "revenue">>,
     <<"campaign_name", "channel", "cost", "impressions", "clicks",
       "conversions", "revenue">>}

StoredDates == {Null, <<2023, 1, 1>>, <<2023, 1, 2>>, <<2022, 12, 31>>}

\* every campaign has its own name and id
StoredTable(layout, dates) ==
    [columns |-> layout,
     rows |-> [i \in DOMAIN dates |->
                 [c \in Range(layout) |->
                     CASE c = "date" -> dates[i]
                       [] c = "campaign_name" -> <<96 + i>>
                       [] c = "channel" -> <<101>>
                       [] c \in {"campaign_id", "id"} -> i
                       [] c = "created_at" -> <<2024, 1, 1>>
                       [] c = "cost" -> I(100)
                       [] c = "revenue" -> I(200)
                       [] c = "impressions" -> I(1000)
                       [] c = "clicks" -> I(50)
                       [] OTHER -> I(5)]]]

InitLoad ==
    /\ config \in RoiConfigs
    /\ db_campaigns \in {StoredTable(layout, dates) :
                            layout \in StoredLayouts,
                            dates \in SeqsUpTo(StoredDates, MaxStoredRows)}
    /\ loaded_df = <<>>
    /\ load_status = "stored"
    /\ IdleClip
    /\ IdleCust
    /\ IdleCamp
    /\ IdleSeg
    /\ IdleRoi
    /\ IdleChan
    /\ IdleReport
    /\ IdleMain

LoadCampaigns ==
    /\ load_status = "stored"
    /\ \E out \in load_campaigns(db_campaigns) :
          /\ load_status' = out.status
          /\ loaded_df' = out.df
    /\ UNCHANGED <<config, db_campaigns, clipVars, custVars, campVars, segVars,
                   roiVars, chanVars, reportVars, mainVars>>

NextLoad == LoadCampaigns

SpecLoad == InitLoad /\ [][NextLoad]_vars

\* C27 as stated: load_campaigns returns one row per stored row, with
\* exactly the columns of the stored table in the same order (campaign_id
\* included).
C27_SameRowsAndColumns ==
    load_status = "ok" =>
        /\ Len(loaded_df.rows) = Len(db_campaigns.rows)
        /\ loaded_df.columns = db_campaigns.columns

\* ------------------------------------------------------------------------
\* SpecMain: main(args), statement by statement
\* ------------------------------------------------------------------------
MainConfigs ==
    [outlier_threshold : {R(3, 2)}, min_sessions : {I(0)}, min_revenue : {I(0)},
     n_clusters : {3}]

MainArgs == [skip_errors : BOOLEAN, export_powerbi : BOOLEAN]

MainCampaignCells == [cost : {I(0), I(100)}, revenue : {I(-20), I(200)}]

MainCampaignTable(cells) ==
    [i \in DOMAIN cells |->
        [idx |-> i, campaign_name |-> <<97>>, channel |-> <<101>>,
         cost |-> cells[i].cost, revenue |-> cells[i].revenue,
         impressions |-> I(1000), clicks |-> I(50), conversions |-> I(5)]]

\* the first n customers of the database: three kinds of customer in turn
MainCustomerTable(n) ==
    [i \in 1..n |->
        LET k == ((i - 1) % 3) + 1
        IN  [idx |-> i, gender |-> <<109>>, country |-> <<117, 107>>,
             sessions |-> I(5 * k), transactions |-> I(k),
             revenue |-> I(100 * k)]]

InitMain ==
    /\ config \in MainConfigs
    /\ args \in MainArgs
    /\ pc = "load"
    /\ calls = <<>>
    /\ campaigns_df = <<>>
    /\ camp_filled = <<>>
    /\ clean_campaigns = <<>>
    /\ camp_status = "idle"
    /\ customers_df = <<>>
    /\ clean_customers = <<>>
    /\ cust_status = "idle"
    /\ IdleClip
    /\ IdleSeg
    /\ IdleRoi
    /\ IdleChan
    /\ IdleReport
    /\ IdleLoad

\* the log entry that follows a call that raised
Raises == "raises"

\* ExternalCalls with --skip-errors honoured for every step of main
ExternalCallsSkippable(at, called, next) ==
    /\ pc = at
    /\ \E failing \in 0..Len(called) :
          /\ calls' = calls \o (IF failing = 0 THEN called
                                ELSE SubSeq(called, 1, failing) \o <<Raises>>)
          /\ pc' = IF failing = 0 \/ args.skip_errors THEN next ELSE "raised"

\* a run of calls on collaborators that are not modelled further: all
\* return, or one of them raises and main re-raises
ExternalCalls(at, called, next) ==
    /\ pc = at
    /\ \E failing \in 0..Len(called) :
          /\ calls' = calls \o (IF failing = 0 THEN called
                                ELSE SubSeq(called, 1, failing) \o <<Raises>>)
          /\ pc' = IF failing = 0 THEN next ELSE "raised"

\* main going on to the cleaning with only the campaigns loaded
MainLoadCampaignsOnly ==
    /\ pc = "load"
    /\ \E cells \in SeqsUpTo(MainCampaignCells, MaxLoadedCampaigns) :
          campaigns_df' = MainCampaignTable(cells)
    /\ calls' = calls \o <<"load_campaigns">>
    /\ pc' = "clean_campaigns"
    /\ UNCHANGED <<config, loadVars, reportVars, args, customers_df, camp_filled, clean_campaigns,
                   camp_status, clean_customers, cust_status, clipVars, segVars,
                   roiVars, chanVars>>

\* DataLoader(...), load_campaigns(), load_customers()
MainLoad ==
    /\ pc = "load"
    /\ \/ /\ \E cells \in SeqsUpTo(MainCampaignCells, MaxLoadedCampaigns) :
                campaigns_df' = MainCampaignTable(cells)
          /\ \E n \in 0..MaxLoadedCustomers :
                customers_df' = MainCustomerTable(n)
          /\ calls' = calls \o <<"load_campaigns", "load_customers">>
          /\ pc' = "clean_campaigns"
       \/ /\ calls' = calls \o <<"load_campaigns", Raises>>
          /\ pc' = "raised"
          /\ UNCHANGED <<campaigns_df, customers_df>>
       \/ /\ \E cells \in SeqsUpTo(MainCampaignCells, MaxLoadedCampaigns) :
                campaigns_df' = MainCampaignTable(cells)
          /\ calls' = calls \o <<"load_campaigns", "load_customers", Raises>>
          /\ pc' = "raised"
          /\ UNCHANGED customers_df
    /\ UNCHANGED <<config, loadVars, reportVars, args, camp_filled, clean_campaigns, camp_status, clean_customers,
                   cust_status, clipVars, segVars, roiVars, chanVars>>

MainCleanCampaigns ==
    /\ pc = "clean_campaigns"
    /\ IF ModeRowMissing(campaigns_df)
       THEN /\ calls' = calls \o <<"clean_campaign_data", Raises>>
            /\ pc' = "raised"
            /\ UNCHANGED <<camp_filled, clean_campaigns>>
       ELSE /\ calls' = calls \o <<"clean_campaign_data">>
            /\ pc' = "clean_customers"
            /\ camp_filled' = handle_missing_values(campaigns_df)
            /\ clean_campaigns' = clean_campaign_data(campaigns_df, config)
    /\ UNCHANGED <<config, loadVars, reportVars, args, campaigns_df, camp_status, custVars, clipVars,
                   segVars, roiVars, chanVars>>

MainCleanCustomers ==
    /\ pc = "clean_customers"
    /\ IF ModeRowMissing(customers_df)
       THEN /\ calls' = calls \o <<"clean_customer_data", Raises>>
            /\ pc' = "raised"
            /\ UNCHANGED clean_customers
       ELSE /\ calls' = calls \o <<"clean_customer_data">>
            /\ pc' = "save_clean"
            /\ clean_customers' = clean_customer_data(customers_df, config)
    /\ UNCHANGED <<config, loadVars, reportVars, args, customers_df, cust_status, campVars, clipVars,
                   segVars, roiVars, chanVars>>

MainSaveClean ==
    /\ ExternalCalls("save_clean", <<"save_to_csv", "save_to_csv">>, "eda")
    /\ UNCHANGED <<config, loadVars, reportVars, args, custVars, campVars, clipVars, segVars,
                   roiVars, chanVars>>

MainEda ==
    /\ ExternalCalls("eda", <<"plot_campaign_performance", "generate_eda_report">>,
                     "segment")
    /\ UNCHANGED <<config, loadVars, reportVars, args, custVars, campVars, clipVars, segVars,
                   roiVars, chanVars>>

\* segmented_df is the table clean_customers, with the columns added to it
MainSegment ==
    /\ pc = "segment"
    /\ seg_input' = clean_customers
    /\ \E out \in segment_customers(clean_customers, config.n_clusters) :
          /\ calls' = calls \o (IF out.status = "ok" THEN <<"segment_customers">>
                                ELSE <<"segment_customers", Raises>>)
          /\ clean_customers' = out.df
          /\ seg_df' = IF out.status = "ok" THEN out.df ELSE seg_df
          /\ pc' = IF out.status = "ok" THEN "segment_outputs" ELSE "raised"
    /\ UNCHANGED <<config, loadVars, reportVars, args, customers_df, cust_status, campVars, clipVars,
                   seg_status, roiVars, chanVars>>

MainSegmentOutputs ==
    /\ ExternalCalls("segment_outputs",
                     <<"plot_segments", "get_segment_profiles", "save_to_csv">>,
                     "roi")
    /\ UNCHANGED <<config, loadVars, reportVars, args, custVars, campVars, clipVars, segVars,
                   roiVars, chanVars>>

\* roi_df = roi_calc.calculate_campaign_roi(clean_campaigns): the statement
\* before it is the logger call of step 3.3
MainRoi ==
    /\ pc = "roi"
    /\ roi_input' = clean_campaigns
    /\ \E failure \in IOFailures :
          /\ calls' = calls \o (IF failure = "none" THEN <<"calculate_campaign_roi">>
                                ELSE <<"calculate_campaign_roi", Raises>>)
          /\ roi_status' = IF failure = "none" THEN "ok" ELSE "OSError"
          /\ roi_df' = IF failure = "none"
                       THEN calculate_campaign_roi(clean_campaigns) ELSE <<>>
          /\ roi_files' = FilesWritten(failure)
          /\ channel_summary' =
                IF failure = "makedirs" THEN <<>>
                ELSE analyze_channel_performance(
                         calculate_campaign_roi(clean_campaigns))
          /\ pc' = IF failure = "none" THEN "roi_outputs" ELSE "raised"
    /\ UNCHANGED <<config, loadVars, reportVars, args, custVars, campVars, clipVars, segVars,
                   roi_valid, chan_df, chan_status>>

MainRoiOutputs ==
    /\ ExternalCalls("roi_outputs",
                     <<"plot_roi_analysis", "generate_roi_report", "export_summary">>,
                     "report_pdf")
    /\ UNCHANGED <<config, loadVars, reportVars, args, custVars, campVars, clipVars, segVars,
                   roiVars, chanVars>>

\* ExecutiveSummaryGenerator(...) and generate_pdf(): a failure of either is
\* re-raised unless --skip-errors; with it, a failed constructor ends
\* stage 4 and a failed generate_pdf goes on to the HTML report
MainReportPdf ==
    /\ pc = "report_pdf"
    /\ \E outcome \in {"ok", "constructor raises", "generate_pdf raises"} :
          /\ calls' = calls \o
                (CASE outcome = "constructor raises" ->
                          <<"ExecutiveSummaryGenerator", Raises>>
                   [] outcome = "generate_pdf raises" ->
                          <<"ExecutiveSummaryGenerator", "generate_pdf", Raises>>
                   [] OTHER -> <<"ExecutiveSummaryGenerator", "generate_pdf">>)
          /\ pc' = IF outcome = "ok" THEN "report_html"
                   ELSE IF ~args.skip_errors THEN "raised"
                   ELSE IF outcome = "constructor raises" THEN "powerbi"
                   ELSE "report_html"
    /\ UNCHANGED <<config, loadVars, reportVars, args, custVars, campVars, clipVars, segVars,
                   roiVars, chanVars>>

\* the HTML report with its failure re-raised whatever --skip-errors says
MainReportHtmlAlwaysRaises ==
    /\ pc = "report_html"
    /\ \E ok \in BOOLEAN :
          /\ calls' = calls \o (IF ok THEN <<"generate_html_report">>
                                ELSE <<"generate_html_report", Raises>>)
          /\ pc' = IF ok THEN "powerbi" ELSE "raised"
    /\ UNCHANGED <<config, loadVars, reportVars, args, custVars, campVars, clipVars,
                   segVars, roiVars, chanVars>>

MainReportHtml ==
    /\ pc = "report_html"
    /\ \E ok \in BOOLEAN :
          /\ calls' = calls \o (IF ok THEN <<"generate_html_report">>
                                ELSE <<"generate_html_report", Raises>>)
          /\ pc' = IF ok \/ args.skip_errors THEN "powerbi" ELSE "raised"
    /\ UNCHANGED <<config, loadVars, reportVars, args, custVars, campVars, clipVars, segVars,
                   roiVars, chanVars>>

MainPowerBI ==
    /\ pc = "powerbi"
    /\ IF args.export_powerbi
       THEN \E ok \in BOOLEAN :
               /\ calls' = calls \o (IF ok THEN <<"export_all">>
                                     ELSE <<"export_all", Raises>>)
               /\ pc' = IF ok \/ args.skip_errors THEN "dashboard" ELSE "raised"
       ELSE /\ pc' = "dashboard"
            /\ UNCHANGED calls
    /\ UNCHANGED <<config, loadVars, reportVars, args, custVars, campVars, clipVars, segVars,
                   roiVars, chanVars>>

\* _generate_live_dashboard_from_db catches its own exceptions and returns
\* None, and main wraps the call in try/except: a failure of the live
\* dashboard is logged and the run completes
MainDashboard ==
    /\ pc = "dashboard"
    /\ \E ok \in BOOLEAN :
          calls' = calls \o (IF ok THEN <<"_generate_live_dashboard_from_db">>
                             ELSE <<"_generate_live_dashboard_from_db", Raises>>)
    /\ pc' = "completed"
    /\ UNCHANGED <<config, loadVars, reportVars, args, custVars, campVars, clipVars, segVars,
                   roiVars, chanVars>>

NextMain ==
    \/ MainLoad
    \/ MainCleanCampaigns
    \/ MainCleanCustomers
    \/ MainSaveClean
    \/ MainEda
    \/ MainSegment
    \/ MainSegmentOutputs
    \/ MainRoi
    \/ MainRoiOutputs
    \/ MainReportPdf
    \/ MainReportHtml
    \/ MainPowerBI
    \/ MainDashboard

SpecMain == InitMain /\ [][NextMain]_vars

\* every call of b in the log has a call of a before it
CalledBefore(a, b) ==
    \A j \in DOMAIN calls :
        calls[j] = b => \E i \in 1..(j - 1) : calls[i] = a

\* the call a was made before position j of the log, and returned
Returned(a, j) ==
    \E i \in 1..(j - 1) : calls[i] = a /\ calls[i + 1] # Raises

CleaningCalls == {"clean_campaign_data", "clean_customer_data"}

AnalysisCalls ==
    {"plot_campaign_performance", "generate_eda_report", "segment_customers",
     "plot_segments", "get_segment_profiles", "calculate_campaign_roi",
     "plot_roi_analysis", "generate_roi_report", "export_summary"}

ReportCalls == {"ExecutiveSummaryGenerator", "generate_pdf", "generate_html_report"}

\* the stage a call belongs to; 0 for save_to_csv, which stages 2 and 3 both
\* make, and for the entry that marks a raise
StageOf(call) ==
    CASE call \in {"load_campaigns", "load_customers"} -> 1
      [] call \in CleaningCalls -> 2
      [] call \in AnalysisCalls -> 3
      [] call \in ReportCalls -> 4
      [] call = "export_all" -> 5
      [] call = "_generate_live_dashboard_from_db" -> 6
      [] OTHER -> 0

\* C25: the stages run one after another without overlap: both loads have
\* returned before cleaning starts, both cleaners have returned before any
\* analysis call, calculate_campaign_roi has returned before
\* generate_roi_report and export_summary, and every analysis call has
\* returned before report generation starts.
C25_StagesInSequence ==
    \A j \in DOMAIN calls :
        /\ calls[j] \in CleaningCalls
               => Returned("load_campaigns", j) /\ Returned("load_customers", j)
        /\ calls[j] \in AnalysisCalls
               => \A a \in CleaningCalls : Returned(a, j)
        /\ calls[j] \in {"generate_roi_report", "export_summary"}
               => Returned("calculate_campaign_roi", j)
        /\ calls[j] \in ReportCalls
               => \A a \in AnalysisCalls : Returned(a, j)
        /\ \A i \in 1..(j - 1) :
               (StageOf(calls[i]) # 0 /\ StageOf(calls[j]) # 0)
                  => StageOf(calls[i]) <= StageOf(calls[j])

\* a run that went through all five stages and completed
C25_Witness ==
    /\ pc = "completed"
    /\ \A s \in 1..6 : \E j \in DOMAIN calls : StageOf(calls[j]) = s
    /\ \E j \in DOMAIN calls : calls[j] = "generate_html_report"

\* once the analysis is done main runs to its end: each of the statements
\* of stages 4 and 5 and of the completion returns or raises (no call hangs)
SpecMainLive ==
    /\ SpecMain
    /\ WF_vars(MainReportPdf)
    /\ WF_vars(MainReportHtml)
    /\ WF_vars(MainPowerBI)
    /\ WF_vars(MainDashboard)

\* the call at position i of the log raised
RaisedAt(i) == i < Len(calls) /\ calls[i + 1] = Raises

NonCriticalCalls == {"generate_pdf", "generate_html_report", "export_all"}

NonCriticalFailed == \E i \in DOMAIN calls : calls[i] \in NonCriticalCalls /\ RaisedAt(i)

\* with --skip-errors a failed PDF report, HTML report or Power BI export
\* does not end the run and the HTML report still follows a failed PDF
\* report; without it the failure is the last thing the run does
SkipErrorsHandled ==
    \A i \in DOMAIN calls :
        (calls[i] \in NonCriticalCalls /\ RaisedAt(i)) =>
            IF args.skip_errors
            THEN /\ pc # "raised"
                 /\ calls[i] = "generate_pdf"
                       => \/ pc = "report_html" /\ i + 1 = Len(calls)
                          \/ i + 2 <= Len(calls) /\ calls[i + 2] = "generate_html_report"
            ELSE /\ pc = "raised"
                 /\ i + 1 = Len(calls)

\* C28: a failure of the PDF report, the HTML report or the Power BI export
\* is decided by skip_errors: with it the run continues, still attempts the
\* HTML report after a failed PDF report, and reaches the completion
\* message; without it the exception leaves main and the completion message
\* is never reached.
C28_SkipErrorsDecides ==
    /\ []SkipErrorsHandled
    /\ (NonCriticalFailed /\ args.skip_errors) ~> (pc = "completed")

\* a run with --skip-errors in which the PDF report, the HTML report and the
\* Power BI export all failed, and which completed
C28_Witness ==
    /\ pc = "completed"
    /\ args.skip_errors
    /\ \A c \in NonCriticalCalls : \E i \in DOMAIN calls : calls[i] = c /\ RaisedAt(i)

\* the calls of stages 1 to 3
CriticalCalls ==
    {"load_campaigns", "load_customers", "save_to_csv"} \cup CleaningCalls
        \cup AnalysisCalls

\* C29: a failure in extraction, cleaning, EDA, segmentation or ROI analysis
\* aborts the run whatever skip_errors is: the exception propagates and no
\* later step is executed; a failure of the live dashboard at the end never
\* aborts the run.
C29_CriticalFailureAborts ==
    \A i \in DOMAIN calls :
        /\ (calls[i] \in CriticalCalls /\ RaisedAt(i))
               => pc = "raised" /\ i + 1 = Len(calls)
        /\ (calls[i] = "_generate_live_dashboard_from_db" /\ RaisedAt(i))
               => pc = "completed" /\ i + 1 = Len(calls)
        /\ pc = "raised" => Len(calls) > 0 /\ calls[Len(calls)] = Raises

\* with --skip-errors, a run that segment_customers ended
C29_Witness ==
    /\ args.skip_errors
    /\ pc = "raised"
    /\ Len(calls) > 1
    /\ calls[Len(calls) - 1] = "segment_customers"

\* C30: in the table calculate_campaign_roi makes of the cleaned campaign
\* table, roi and roas are the unguarded quotients by cost and stand in
\* place of the cleaner's guarded roi and roas, while ctr, conversion_rate,
\* cost_per_click and cost_per_conversion are the cleaner's guarded values;
\* the cleaned table itself keeps its guarded roi and roas.
C30_RoiEngineReplacesRoiAndRoas ==
    (pc # "idle" /\ roi_status = "ok") =>
        /\ Len(roi_df) = Len(clean_campaigns)
        /\ \A i \in DOMAIN roi_df :
              LET c == clean_campaigns[i]
                  r == roi_df[i]
              IN  /\ r.roi = RMul(RDiv(RSub(c.revenue, c.cost), c.cost), I(100))
                  /\ r.roas = RDiv(c.revenue, c.cost)
                  /\ c.roi = GuardedRatio(RSub(c.revenue, c.cost), c.cost, 100)
                  /\ c.roas = GuardedRatio(c.revenue, c.cost, 1)
                  /\ \A m \in {"ctr", "conversion_rate", "cost_per_click",
                                "cost_per_conversion"} :
                        r[m] = c[m] /\ GuardedFinite(r[m])
                  /\ c.cost = I(0) => ~IsFinite(r.roi) /\ GuardedFinite(c.roi)

\* a cleaned campaign of cost 0: its roi is infinite in the ROI table and
\* finite in the cleaned table
C30_Witness ==
    /\ pc # "idle"
    /\ roi_status = "ok"
    /\ \E i \in DOMAIN roi_df :
          /\ clean_campaigns[i].cost = I(0)
          /\ roi_df[i].roi = PosInf
          /\ roi_df[i].roas = PosInf
          /\ GuardedFinite(clean_campaigns[i].roi)
          /\ GuardedFinite(roi_df[i].cost_per_click)

\* C2 as stated: in every run of main, validate_data is executed on the
\* cleaned campaign table before calculate_campaign_roi is invoked, so
\* calculate_campaign_roi is never reached with a row of cost <= 0 or
\* revenue < 0.
C2_ValidatedBeforeRoi ==
    /\ CalledBefore("validate_data", "calculate_campaign_roi")
    /\ pc \notin {"idle"} =>
          \A i \in DOMAIN roi_input :
              RGt(roi_input[i].cost, I(0)) /\ RGe(roi_input[i].revenue, I(0))
====
